---------------------------- MODULE Spec2Model ----------------------------
(***************************************************************************)
(* A model of the fleet reporting dashboard (kmonkmol38/DashNew1).         *)
(*                                                                         *)
(* Two state machines share the variables below.                           *)
(*   Spec     the view-state machine: one of the five detail views or the  *)
(*            Summary view, opened from the Dashboard over a loaded        *)
(*            workbook, with its cascading filters and its effects.        *)
(*   AppSpec  the session machine of App: the initial load, uploads parsed *)
(*            by a worker, the IndexedDB mirror and Reset.                 *)
(*   FairAppSpec is AppSpec with the fairness the browser's scheduling     *)
(*            gives (a worker runs to its outcome, a queued IndexedDB      *)
(*            request is eventually processed).                            *)
(*                                                                         *)
(* JavaScript strings are sequences of one-character strings so that       *)
(* toUpperCase, substring, includes, trim, the default sort order and      *)
(* localeCompare are computed rather than assumed.  Cell values are tagged *)
(* records (undefined, string, number, date).                              *)
(***************************************************************************)
EXTENDS Integers, Sequences, FiniteSets, TLC

VARIABLES
    excelData,        \* App.excelData: NULL or the workbook (sheet -> rows)
    activeView,       \* App.activeView
    sharedFilters,    \* App.sharedFilters (SharedFilterState)
    filters,          \* the mounted view's `filters` state
    texts,            \* the mounted view's text-search states
    effectsPending,   \* a render was committed whose effects have not run yet
    sharedSeen,       \* the sharedFilters the view's push-down effect last ran with
    fileName,         \* App.fileName
    uploadTimestamp,  \* App.uploadTimestamp
    isLoading,        \* App.isLoading
    error,            \* App.error
    warnings,         \* App.warnings
    workers,          \* upload number -> the worker created for it and its message
    delivered,        \* upload number -> number of outcomes its handlers applied
    idb,              \* the object store: the value under 'sessionData' or NULL
    idbQueue,         \* IndexedDB requests issued and not yet completed
    loadState,        \* position of the loadData effect
    priorSession,     \* history: the in-memory session when the last upload began
    sortConfig,       \* DataTable.sortConfig of the mounted view's table
    selectedVehicle   \* InternalFleetsView.selectedVehicle: NULL or the vehicle shown

viewVars == <<activeView, sharedFilters, filters, texts, effectsPending, sharedSeen,
              sortConfig, selectedVehicle>>
appVars  == <<fileName, uploadTimestamp, isLoading, error, warnings, workers,
              delivered, idb, idbQueue, loadState, priorSession>>
vars     == <<excelData, activeView, sharedFilters, filters, texts, effectsPending, sharedSeen,
              fileName, uploadTimestamp, isLoading, error, warnings, workers,
              delivered, idb, idbQueue, loadState, priorSession,
              sortConfig, selectedVehicle>>

(***************************************************************************)
(* Bounds                                                                  *)
(***************************************************************************)
\* largest number of rows in the sheet whose rows are enumerated
MaxRows == 2
\* number of uploads in one behaviour of the session machine
MaxUploads == 2

\* Reset clicks whose idbClear has not completed yet
MaxPendingResets == 1

(***************************************************************************)
(* JavaScript strings                                                      *)
(***************************************************************************)
UpperLetters == <<"A","B","C","D","E","F","G","H","I","J","K","L","M",
                  "N","O","P","Q","R","S","T","U","V","W","X","Y","Z">>
LowerLetters == <<"a","b","c","d","e","f","g","h","i","j","k","l","m",
                  "n","o","p","q","r","s","t","u","v","w","x","y","z">>
Digits       == <<"0","1","2","3","4","5","6","7","8","9">>

\* the characters in UTF-16 code-unit order: space < digits < A-Z < a-z
CodeUnitOrder == <<" ">> \o Digits \o UpperLetters \o LowerLetters

IndexOf(c, seq) == CHOOSE i \in 1..Len(seq) : seq[i] = c

IsIn(c, seq) == \E i \in 1..Len(seq) : seq[i] = c

\* rank of a character in code-unit order
CodeUnit(c) == IndexOf(c, CodeUnitOrder)

UpperChar(c) == IF IsIn(c, LowerLetters) THEN UpperLetters[IndexOf(c, LowerLetters)] ELSE c

LowerChar(c) == IF IsIn(c, UpperLetters) THEN LowerLetters[IndexOf(c, UpperLetters)] ELSE c

\* String.prototype.toUpperCase
ToUpperCase(s) == [i \in 1..Len(s) |-> UpperChar(s[i])]

\* String.prototype.toLowerCase
ToLowerCase(s) == [i \in 1..Len(s) |-> LowerChar(s[i])]

\* String.prototype.substring(0, n)
Substring0(s, n) == IF Len(s) <= n THEN s ELSE SubSeq(s, 1, n)

RECURSIVE TrimStart(_)
TrimStart(s) == IF s # <<>> /\ Head(s) = " " THEN TrimStart(Tail(s)) ELSE s

RECURSIVE TrimEnd(_)
TrimEnd(s) == IF s # <<>> /\ s[Len(s)] = " " THEN TrimEnd(SubSeq(s, 1, Len(s) - 1)) ELSE s

\* String.prototype.trim
Trim(s) == TrimEnd(TrimStart(s))

\* String.prototype.includes
Includes(s, t) == \E i \in 0..(Len(s) - Len(t)) : SubSeq(s, i + 1, i + Len(t)) = t

\* a < b in the order of Array.prototype.sort() without a comparator
\* (code units, a proper prefix first)
RECURSIVE CodeUnitLess(_, _)
CodeUnitLess(a, b) ==
    IF b = <<>> THEN FALSE
    ELSE IF a = <<>> THEN TRUE
    ELSE IF Head(a) = Head(b) THEN CodeUnitLess(Tail(a), Tail(b))
    ELSE CodeUnit(Head(a)) < CodeUnit(Head(b))

\* primary collation weight of a character: space < digits < letters,
\* a letter and its capital share a weight
PrimaryWeight(c) == CodeUnit(UpperChar(c))

RECURSIVE PrimaryLess(_, _)
PrimaryLess(a, b) ==
    IF b = <<>> THEN FALSE
    ELSE IF a = <<>> THEN TRUE
    ELSE IF PrimaryWeight(Head(a)) = PrimaryWeight(Head(b)) THEN PrimaryLess(Tail(a), Tail(b))
    ELSE PrimaryWeight(Head(a)) < PrimaryWeight(Head(b))

\* with equal primary weights the first case difference decides, lower case first
RECURSIVE CaseLess(_, _)
CaseLess(a, b) ==
    IF a = <<>> \/ b = <<>> THEN FALSE
    ELSE IF Head(a) = Head(b) THEN CaseLess(Tail(a), Tail(b))
    ELSE IsIn(Head(a), LowerLetters)

\* a.localeCompare(b) < 0
LocaleLess(a, b) ==
    IF PrimaryLess(a, b) THEN TRUE
    ELSE IF PrimaryLess(b, a) THEN FALSE
    ELSE CaseLess(a, b)

\* the decimal digits of a natural number: String(n)
RECURSIVE NatToString(_)
NatToString(n) ==
    IF n < 10 THEN <<Digits[n + 1]>>
    ELSE NatToString(n \div 10) \o <<Digits[(n % 10) + 1]>>

sAll  == <<"A","l","l">>
sNone == <<>>


(***************************************************************************)
(* JavaScript values held in cells and returned by the helpers             *)
(***************************************************************************)
Undef == [k |-> "undefined"]

Null == [k |-> "null"]

Str(x) == [k |-> "string", s |-> x]

Num(x) == [k |-> "number", n |-> x]

\* a valid Date at midnight UTC; m is the month index 0..11
DateV(yy, mm, dd) == [k |-> "date", y |-> yy, m |-> mm, d |-> dd]

\* a Date whose time value is NaN
InvalidDate == [k |-> "invalidDate"]

\* ToBoolean
Truthy(v) ==
    CASE v.k = "string" -> v.s # <<>>
      [] v.k = "number" -> v.n # 0
      [] v.k = "date" -> TRUE
      [] v.k = "invalidDate" -> TRUE
      [] OTHER -> FALSE

IsNullish(v) == v.k \in {"undefined", "null"}

\* a ?? b
Coalesce(a, b) == IF IsNullish(a) THEN b ELSE a

\* a || b
OrElse(a, b) == IF Truthy(a) THEN a ELSE b

MONTH_NAMES == << <<"J","A","N">>, <<"F","E","B">>, <<"M","A","R">>, <<"A","P","R">>,
                  <<"M","A","Y">>, <<"J","U","N">>, <<"J","U","L">>, <<"A","U","G">>,
                  <<"S","E","P">>, <<"O","C","T">>, <<"N","O","V">>, <<"D","E","C">> >>

YEARS == << <<"2","0","2","4">>, <<"2","0","2","5">>, <<"2","0","2","6">> >>

WeekDays == << <<"S","u","n">>, <<"M","o","n">>, <<"T","u","e">>, <<"W","e","d">>,
               <<"T","h","u">>, <<"F","r","i">>, <<"S","a","t">> >>

MonthOffsets == <<0, 3, 2, 5, 0, 3, 5, 1, 4, 6, 2, 4>>

\* day of the week (0 = Sunday) of a calendar date, m in 0..11
DayOfWeek(yy, mm, dd) ==
    LET y1 == IF mm < 2 THEN yy - 1 ELSE yy
    IN  (y1 + (y1 \div 4) - (y1 \div 100) + (y1 \div 400) + MonthOffsets[mm + 1] + dd) % 7

TitleCase(s) == <<s[1]>> \o ToLowerCase(Tail(s))

TwoDigits(n) == IF n < 10 THEN <<"0">> \o NatToString(n) ELSE NatToString(n)

\* the leading "Www Mmm DD YYYY" of Date.prototype.toString (the time and
\* zone that follow are not modelled; the viewer's zone is taken to be UTC)
DateToString(v) ==
    WeekDays[DayOfWeek(v.y, v.m, v.d) + 1] \o <<" ">> \o TitleCase(MONTH_NAMES[v.m + 1])
        \o <<" ">> \o TwoDigits(v.d) \o <<" ">> \o NatToString(v.y)

\* String(v)
ToStr(v) ==
    CASE v.k = "string" -> v.s
      [] v.k = "number" -> NatToString(v.n)
      [] v.k = "date" -> DateToString(v)
      [] v.k = "invalidDate" -> <<"I","n","v","a","l","i","d"," ","D","a","t","e">>
      [] v.k = "null" -> <<"n","u","l","l">>
      [] OTHER -> <<"u","n","d","e","f","i","n","e","d">>

\* v === s for a string s
StrictEq(v, s) == v.k = "string" /\ v.s = s

\* value instanceof Date && !isNaN(value.getTime())
IsValidDate(v) == v.k = "date"

\* item[c]
Get(item, c) == IF c \in DOMAIN item THEN item[c] ELSE Undef

\* Array.prototype.includes on a list of strings
ListIncludes(list, x) == \E i \in 1..Len(list) : list[i] = x

Range(seq) == {seq[i] : i \in 1..Len(seq)}

\* Array.prototype.filter
RECURSIVE FilterSeq(_, _)
FilterSeq(seq, keep) ==
    IF seq = <<>> THEN <<>>
    ELSE IF Head(seq) \in keep THEN <<Head(seq)>> \o FilterSeq(Tail(seq), keep)
    ELSE FilterSeq(Tail(seq), keep)

\* Array.from(set).sort(): the strings of a Set in code-unit order
RECURSIVE SortedStrings(_)
SortedStrings(S) ==
    IF S = {} THEN <<>>
    ELSE LET least == CHOOSE x \in S : \A y \in S \ {x} : CodeUnitLess(x, y)
         IN  <<least>> \o SortedStrings(S \ {least})

\* the comparator (a,b) => a === 'All' ? -1 : b === 'All' ? 1 : a.localeCompare(b)
PinnedLess(a, b) ==
    IF a = sAll THEN TRUE
    ELSE IF b = sAll THEN FALSE
    ELSE LocaleLess(a, b)

RECURSIVE InsertPinned(_, _)
InsertPinned(x, sorted) ==
    IF sorted = <<>> THEN <<x>>
    ELSE IF PinnedLess(x, Head(sorted)) THEN <<x>> \o sorted
    ELSE <<Head(sorted)>> \o InsertPinned(x, Tail(sorted))

\* list.sort(comparator) with the pinned comparator
RECURSIVE SortPinned(_)
SortPinned(list) ==
    IF list = <<>> THEN <<>>
    ELSE InsertPinned(Head(list), SortPinned(Tail(list)))

\* ['All', ...Array.from(set).sort()]
OptionList(S) == <<sAll>> \o SortedStrings(S)

\* the append of the current selection made by the Driver & Operator view
WithSelection(list, selected) ==
    IF selected # sAll /\ ~ListIncludes(list, selected)
    THEN SortPinned(Append(list, selected))
    ELSE list

(***************************************************************************)
(* Driver & Operator view (DriverOperatorView.tsx)                         *)
(***************************************************************************)
getMonthNameFromDate(v) == IF IsValidDate(v) THEN Str(MONTH_NAMES[v.m + 1]) ELSE Null

getYearFromDate(v) == IF IsValidDate(v) THEN Num(v.y) ELSE Null

getBusinessUnit(item) ==
    Coalesce(Get(item, "BUSINESS UNITS"),
    Coalesce(Get(item, "Business Units"),
    Coalesce(Get(item, "BUSINESS UNIT"),
    Coalesce(Get(item, "Business Unit"), Get(item, "Client Company Name")))))

getDesignation(item) == Coalesce(Get(item, "DESIGNATION"), Get(item, "Designation"))

DO_itemMonthName(item) ==
    IF Truthy(Get(item, "Month"))
    THEN Str(Substring0(ToUpperCase(ToStr(Get(item, "Month"))), 3))
    ELSE getMonthNameFromDate(Get(item, "End Date"))

DO_itemYear(item) ==
    IF Truthy(Get(item, "Year"))
    THEN Str(ToStr(Get(item, "Year")))
    ELSE Str(ToStr(OrElse(getYearFromDate(Get(item, "End Date")), Str(sNone))))

DO_monthMatch(item, f) ==
    f.Month = sAll \/ (Truthy(DO_itemMonthName(item)) /\ StrictEq(DO_itemMonthName(item), f.Month))

DO_yearMatch(item, f) ==
    f.Year = sAll \/ (Truthy(DO_itemYear(item)) /\ StrictEq(DO_itemYear(item), f.Year))

DO_sapMatch(item, t) ==
    LET lowercasedSapFilter == Trim(ToLowerCase(t.sapFilter))
        sapNo == Coalesce(Get(item, "SAP NO."), Get(item, "SAP NO:"))
    IN  lowercasedSapFilter = sNone \/ Includes(ToLowerCase(ToStr(sapNo)), lowercasedSapFilter)

DO_businessUnitMatch(item, f) ==
    f.BusinessUnits = sAll \/ ToStr(getBusinessUnit(item)) = f.BusinessUnits

DO_designationMatch(item, f) ==
    f.Designation = sAll \/ StrictEq(getDesignation(item), f.Designation)

DO_baseFilteredData(data, f, t) ==
    {item \in Range(data) : DO_monthMatch(item, f) /\ DO_yearMatch(item, f) /\ DO_sapMatch(item, t)}

\* the distinct business units before 'All' is prepended and the selection appended
DO_businessUnitsSet(data, f, t) ==
    {ToStr(getBusinessUnit(item)) :
        item \in {i \in DO_baseFilteredData(data, f, t) :
                    DO_designationMatch(i, f) /\ Truthy(getBusinessUnit(i))}}

DO_designationsSet(data, f, t) ==
    {ToStr(getDesignation(item)) :
        item \in {i \in DO_baseFilteredData(data, f, t) :
                    DO_businessUnitMatch(i, f) /\ Truthy(getDesignation(i))}}

\* businessUnitsList and designationsList after the append and the final sort
DO_businessUnitsList(data, f, t) ==
    WithSelection(OptionList(DO_businessUnitsSet(data, f, t)), f.BusinessUnits)

DO_designationsList(data, f, t) ==
    WithSelection(OptionList(DO_designationsSet(data, f, t)), f.Designation)

DO_dynamicOptions(data, f, t) ==
    [businessUnits |-> DO_businessUnitsList(data, f, t),
     designations  |-> DO_designationsList(data, f, t)]

DO_filteredData(data, f, t) ==
    FilterSeq(data, {item \in Range(data) :
        /\ DO_monthMatch(item, f) /\ DO_yearMatch(item, f)
        /\ DO_businessUnitMatch(item, f) /\ DO_sapMatch(item, t)
        /\ DO_designationMatch(item, f)})

\* the two stale-selection effects, run against one committed render
DO_effects(data, f, t) ==
    LET opts == DO_dynamicOptions(data, f, t)
    IN  [f EXCEPT
           !.BusinessUnits = IF f.BusinessUnits # sAll /\ ~ListIncludes(opts.businessUnits, f.BusinessUnits)
                             THEN sAll ELSE @,
           !.Designation   = IF f.Designation # sAll /\ ~ListIncludes(opts.designations, f.Designation)
                             THEN sAll ELSE @]

DO_initialFilters(shared) ==
    [Month |-> shared.month, Year |-> shared.year,
     BusinessUnits |-> shared.businessUnit, Designation |-> shared.designation]

(***************************************************************************)
(* Job Card view (JobCardView.tsx)                                         *)
(***************************************************************************)
JC_itemMonthName(item) == Substring0(ToUpperCase(ToStr(OrElse(Get(item, "Month"), Str(sNone)))), 3)

JC_itemYear(item) == ToStr(OrElse(Get(item, "Year"), Str(sNone)))

JC_monthMatch(item, f) == f.Month = sAll \/ JC_itemMonthName(item) = f.Month

JC_yearMatch(item, f) == f.Year = sAll \/ JC_itemYear(item) = f.Year

JC_searchMatch(item, t) ==
    LET lowercasedSearchFilter == Trim(ToLowerCase(t.searchFilter))
        searchKey == Coalesce(Get(item, "Reg / Fleet No:"), Get(item, "Plate #"))
    IN  lowercasedSearchFilter = sNone \/ Includes(ToLowerCase(ToStr(searchKey)), lowercasedSearchFilter)

JC_businessUnitMatch(item, f) ==
    f.BusinessUnits = sAll \/ ToStr(Get(item, "Business Units")) = f.BusinessUnits

JC_clusterMatch(item, f) == f.Cluster = sAll \/ ToStr(Get(item, "Cluster")) = f.Cluster

JC_baseFilteredData(data, f, t) ==
    {item \in Range(data) : JC_monthMatch(item, f) /\ JC_yearMatch(item, f) /\ JC_searchMatch(item, t)}

\* a variant that narrows the list by the business unit selected as well
JC_businessUnits_fullyFiltered(data, f, t) ==
    OptionList({ToStr(Get(item, "Business Units")) :
        item \in {i \in JC_baseFilteredData(data, f, t) :
                    /\ JC_clusterMatch(i, f) /\ JC_businessUnitMatch(i, f)
                    /\ Truthy(Get(i, "Business Units"))}})

JC_businessUnits(data, f, t) ==
    OptionList({ToStr(Get(item, "Business Units")) :
        item \in {i \in JC_baseFilteredData(data, f, t) :
                    JC_clusterMatch(i, f) /\ Truthy(Get(i, "Business Units"))}})

JC_clusters(data, f, t) ==
    OptionList({ToStr(Get(item, "Cluster")) :
        item \in {i \in JC_baseFilteredData(data, f, t) :
                    JC_businessUnitMatch(i, f) /\ Truthy(Get(i, "Cluster"))}})

JC_dynamicOptions(data, f, t) ==
    [businessUnits |-> JC_businessUnits(data, f, t), clusters |-> JC_clusters(data, f, t)]

JC_filteredData(data, f, t) ==
    FilterSeq(data, {item \in Range(data) :
        /\ JC_monthMatch(item, f) /\ JC_yearMatch(item, f)
        /\ JC_businessUnitMatch(item, f) /\ JC_searchMatch(item, t)
        /\ JC_clusterMatch(item, f)})

\* effects that replace a stale selection by the last value on offer
JC_effects_toLastOffered(data, f, t) ==
    LET opts == JC_dynamicOptions(data, f, t)
        last(list) == list[Len(list)]
    IN  [f EXCEPT
           !.BusinessUnits = IF f.BusinessUnits # sAll /\ ~ListIncludes(opts.businessUnits, f.BusinessUnits)
                             THEN last(opts.businessUnits) ELSE @,
           !.Cluster       = IF f.Cluster # sAll /\ ~ListIncludes(opts.clusters, f.Cluster)
                             THEN last(opts.clusters) ELSE @]

JC_effects(data, f, t) ==
    LET opts == JC_dynamicOptions(data, f, t)
    IN  [f EXCEPT
           !.BusinessUnits = IF f.BusinessUnits # sAll /\ ~ListIncludes(opts.businessUnits, f.BusinessUnits)
                             THEN sAll ELSE @,
           !.Cluster       = IF f.Cluster # sAll /\ ~ListIncludes(opts.clusters, f.Cluster)
                             THEN sAll ELSE @]

JC_initialFilters(shared) ==
    [Month |-> shared.month, Year |-> shared.year,
     BusinessUnits |-> shared.businessUnit, Cluster |-> sAll]

(***************************************************************************)
(* Internal Fleets view (InternalFleetsView.tsx)                           *)
(***************************************************************************)
IF_itemMonthName(item) == Substring0(ToUpperCase(ToStr(OrElse(Get(item, "MONTH"), Str(sNone)))), 3)

IF_itemYear(item) == ToStr(OrElse(Get(item, "YEAR"), Str(sNone)))

IF_monthMatch(item, f) == f.Month = sAll \/ IF_itemMonthName(item) = f.Month

IF_yearMatch(item, f) == f.Year = sAll \/ IF_itemYear(item) = f.Year

IF_searchMatch(item, t) ==
    LET lowercasedSearchFilter == Trim(ToLowerCase(t.searchFilter))
    IN  lowercasedSearchFilter = sNone
        \/ Includes(ToLowerCase(ToStr(Get(item, "Reg No:"))), lowercasedSearchFilter)

IF_businessUnitMatch(item, f) ==
    f.BusinessUnits = sAll \/ ToStr(Get(item, "Business Units")) = f.BusinessUnits

IF_fleetCategoryMatch(item, f) ==
    f.Fleet_Category = sAll \/ ToStr(Get(item, "Fleet_Category")) = f.Fleet_Category

\* (item[c] ?? 0) > 0 for a numeric column
PositiveAmount(item, c) ==
    LET v == Coalesce(Get(item, c), Num(0)) IN v.k = "number" /\ v.n > 0

IF_internalTypeMatch(item, internalType) ==
    CASE internalType = "Rental" -> PositiveAmount(item, "R-Revenue")
      [] internalType = "Fuel" -> PositiveAmount(item, "F-Revenue")
      [] OTHER -> TRUE

IF_baseFilteredData(data, f, t) ==
    {item \in Range(data) : IF_monthMatch(item, f) /\ IF_yearMatch(item, f) /\ IF_searchMatch(item, t)}

IF_businessUnits(data, f, t) ==
    OptionList({ToStr(Get(item, "Business Units")) :
        item \in {i \in IF_baseFilteredData(data, f, t) :
                    IF_fleetCategoryMatch(i, f) /\ Truthy(Get(i, "Business Units"))}})

IF_fleetCategories(data, f, t) ==
    OptionList({ToStr(Get(item, "Fleet_Category")) :
        item \in {i \in IF_baseFilteredData(data, f, t) :
                    IF_businessUnitMatch(i, f) /\ Truthy(Get(i, "Fleet_Category"))}})

IF_dynamicOptions(data, f, t) ==
    [businessUnits |-> IF_businessUnits(data, f, t),
     fleetCategories |-> IF_fleetCategories(data, f, t)]

\* a variant that keeps the rental rows whatever the type is
IF_filteredData_rentalOnly(data, f, t, internalType) ==
    FilterSeq(data, {item \in Range(data) :
        /\ IF_monthMatch(item, f) /\ IF_yearMatch(item, f)
        /\ IF_businessUnitMatch(item, f) /\ IF_searchMatch(item, t)
        /\ IF_fleetCategoryMatch(item, f) /\ PositiveAmount(item, "R-Revenue")})

IF_filteredData(data, f, t, internalType) ==
    FilterSeq(data, {item \in Range(data) :
        /\ IF_monthMatch(item, f) /\ IF_yearMatch(item, f)
        /\ IF_businessUnitMatch(item, f) /\ IF_searchMatch(item, t)
        /\ IF_fleetCategoryMatch(item, f) /\ IF_internalTypeMatch(item, internalType)})

IF_effects(data, f, t) ==
    LET opts == IF_dynamicOptions(data, f, t)
    IN  [f EXCEPT
           !.BusinessUnits  = IF f.BusinessUnits # sAll /\ ~ListIncludes(opts.businessUnits, f.BusinessUnits)
                              THEN sAll ELSE @,
           !.Fleet_Category = IF f.Fleet_Category # sAll /\ ~ListIncludes(opts.fleetCategories, f.Fleet_Category)
                              THEN sAll ELSE @]

IF_initialFilters(shared) ==
    [Month |-> shared.month, Year |-> shared.year,
     BusinessUnits |-> shared.businessUnit, Fleet_Category |-> sAll]

(***************************************************************************)
(* External Fleets view (DataView.tsx)                                     *)
(***************************************************************************)
DV_monthMatch(item, f) == f.Month = sAll \/ StrictEq(Get(item, "Month"), f.Month)

DV_yearMatch(item, f) == f.Year = sAll \/ ToStr(Get(item, "Year")) = f.Year

DV_textMatch(item, t) ==
    LET lowercasedRegNoFilter == Trim(ToLowerCase(t.regNoFilter))
        lowercasedTransmittalFilter == Trim(ToLowerCase(t.transmittalFilter))
        lowercasedInvoiceFilter == Trim(ToLowerCase(t.invoiceFilter))
    IN  /\ lowercasedRegNoFilter = sNone
           \/ Includes(ToLowerCase(ToStr(Get(item, "Reg No:"))), lowercasedRegNoFilter)
        /\ lowercasedTransmittalFilter = sNone
           \/ Includes(ToLowerCase(ToStr(Coalesce(Get(item, "Transmittal"), Str(sNone)))),
                       lowercasedTransmittalFilter)
        /\ lowercasedInvoiceFilter = sNone
           \/ Includes(ToLowerCase(ToStr(Coalesce(Get(item, "Invoice Number:"), Str(sNone)))),
                       lowercasedInvoiceFilter)

DV_businessUnitMatch(item, f) ==
    f.BusinessUnit = sAll \/ ToStr(Get(item, "Business Units")) = f.BusinessUnit

DV_supplierMatch(item, f) == f.Supplier = sAll \/ ToStr(Get(item, "Supplier Name")) = f.Supplier

DV_serviceMatch(item, f) ==
    f.TypeOfService = {} \/ ToStr(Get(item, "Type of Service")) \in f.TypeOfService

DV_baseFilteredData(data, f, t) ==
    {item \in Range(data) : DV_monthMatch(item, f) /\ DV_yearMatch(item, f) /\ DV_textMatch(item, t)}

DV_businessUnits(data, f, t) ==
    OptionList({ToStr(Get(item, "Business Units")) :
        item \in {i \in DV_baseFilteredData(data, f, t) :
                    DV_supplierMatch(i, f) /\ DV_serviceMatch(i, f) /\ Truthy(Get(i, "Business Units"))}})

DV_suppliers(data, f, t) ==
    OptionList({ToStr(Get(item, "Supplier Name")) :
        item \in {i \in DV_baseFilteredData(data, f, t) :
                    DV_businessUnitMatch(i, f) /\ DV_serviceMatch(i, f) /\ Truthy(Get(i, "Supplier Name"))}})

DV_typesOfService(data, f, t) ==
    SortedStrings({ToStr(Get(item, "Type of Service")) :
        item \in {i \in DV_baseFilteredData(data, f, t) :
                    DV_businessUnitMatch(i, f) /\ DV_supplierMatch(i, f) /\ Truthy(Get(i, "Type of Service"))}})

DV_dynamicOptions(data, f, t) ==
    [businessUnits |-> DV_businessUnits(data, f, t), suppliers |-> DV_suppliers(data, f, t),
     typesOfService |-> DV_typesOfService(data, f, t)]

DV_filteredData(data, f, t) ==
    FilterSeq(data, {item \in Range(data) :
        /\ DV_monthMatch(item, f) /\ DV_yearMatch(item, f)
        /\ DV_businessUnitMatch(item, f) /\ DV_supplierMatch(item, f)
        /\ DV_serviceMatch(item, f) /\ DV_textMatch(item, t)})

\* the view has effects for Business Unit and Supplier, none for Type of Service
DV_effects(data, f, t) ==
    LET opts == DV_dynamicOptions(data, f, t)
    IN  [f EXCEPT
           !.BusinessUnit = IF f.BusinessUnit # sAll /\ ~ListIncludes(opts.businessUnits, f.BusinessUnit)
                            THEN sAll ELSE @,
           !.Supplier     = IF f.Supplier # sAll /\ ~ListIncludes(opts.suppliers, f.Supplier)
                            THEN sAll ELSE @]

DV_initialFilters(shared) ==
    [Month |-> shared.month, Year |-> shared.year, BusinessUnit |-> shared.businessUnit,
     Supplier |-> sAll, TypeOfService |-> {}]

\* handleTypeOfServiceChange: toggle one service in the selected set
DV_toggleService(f, service) ==
    [f EXCEPT !.TypeOfService = IF service \in @ THEN @ \ {service} ELSE @ \cup {service}]

(***************************************************************************)
(* Fleet Management view (FleetManagement.tsx)                             *)
(***************************************************************************)
getMonthName(v) == IF IsValidDate(v) THEN Str(MONTH_NAMES[v.m + 1]) ELSE Null

getYear(v) == IF IsValidDate(v) THEN Num(v.y) ELSE Null

FM_monthMatch(item, f) == f.Month = sAll \/ StrictEq(getMonthName(Get(item, "Month")), f.Month)

FM_yearMatch(item, f) == f.Year = sAll \/ ToStr(getYear(Get(item, "Month"))) = f.Year

FM_businessUnitMatch(item, f) ==
    f.BusinessUnits = sAll \/ ToStr(Get(item, "Business Units")) = f.BusinessUnits

FM_dynamicOptions(data, f) ==
    [businessUnits |-> OptionList({ToStr(Get(item, "Business Units")) :
        item \in {i \in Range(data) :
                    FM_monthMatch(i, f) /\ FM_yearMatch(i, f) /\ Truthy(Get(i, "Business Units"))}})]

FM_filteredData(data, f) ==
    FilterSeq(data, {item \in Range(data) :
        FM_monthMatch(item, f) /\ FM_yearMatch(item, f) /\ FM_businessUnitMatch(item, f)})

FM_effects(data, f) ==
    LET opts == FM_dynamicOptions(data, f)
    IN  [f EXCEPT
           !.BusinessUnits = IF f.BusinessUnits # sAll /\ ~ListIncludes(opts.businessUnits, f.BusinessUnits)
                             THEN sAll ELSE @]

FM_initialFilters(shared) ==
    [Month |-> shared.month, Year |-> shared.year, BusinessUnits |-> shared.businessUnit]

(***************************************************************************)
(* Summary view (Summary.tsx): option lists and the report filter          *)
(***************************************************************************)
getDriverOperatorBU(item) ==
    Coalesce(Get(item, "BUSINESS UNITS"),
    Coalesce(Get(item, "Business Units"),
    Coalesce(Get(item, "BUSINESS UNIT"),
    Coalesce(Get(item, "Business Unit"), Get(item, "Client Company Name")))))

\* the memoized dropdown lists, computed from the whole sheets
SM_optionLists(wb) ==
    [driverOpDesignations |-> OptionList({ToStr(getDesignation(i)) :
        i \in {r \in Range(wb["Driver & Operator"]) : Truthy(getDesignation(r))}}),
     driverOpBUs |-> OptionList({ToStr(getDriverOperatorBU(i)) :
        i \in {r \in Range(wb["Driver & Operator"]) : Truthy(getDriverOperatorBU(r))}}),
     jobCardBUs |-> OptionList({ToStr(Get(i, "Business Units")) :
        i \in {r \in Range(wb["Job Card"]) : Truthy(Get(r, "Business Units"))}}),
     jobCardClusters |-> OptionList({ToStr(Get(i, "Cluster")) :
        i \in {r \in Range(wb["Job Card"]) : Truthy(Get(r, "Cluster"))}}),
     internalFleetBUs |-> OptionList({ToStr(Get(i, "Business Units")) :
        i \in {r \in Range(wb["Internal Fleets"]) : Truthy(Get(r, "Business Units"))}}),
     internalFleetCategories |-> OptionList({ToStr(Get(i, "Fleet_Category")) :
        i \in {r \in Range(wb["Internal Fleets"]) : Truthy(Get(r, "Fleet_Category"))}})]

\* the month/year part of a report's row filter
SM_dateMatch(sheet, item, f) ==
    CASE sheet = "Internal Fleets" ->
            /\ f.selectedMonth = sAll \/ IF_itemMonthName(item) = f.selectedMonth
            /\ f.selectedYear = sAll \/ IF_itemYear(item) = f.selectedYear
      [] sheet = "Job Card" ->
            /\ f.selectedMonth = sAll \/ JC_itemMonthName(item) = f.selectedMonth
            /\ f.selectedYear = sAll \/ JC_itemYear(item) = f.selectedYear
      [] OTHER ->
            /\ f.selectedMonth = sAll
               \/ StrictEq(getMonthName(Get(item, "End Date")), f.selectedMonth)
            /\ f.selectedYear = sAll
               \/ ToStr(getYear(Get(item, "End Date"))) = f.selectedYear

\* the dropdown a report shows: its sheet, its option list, its selection and
\* the effective value it filters on; the report keys are those of the menu
SM_dropdown(wb, f) ==
    LET lists == SM_optionLists(wb)
    IN  CASE f.activeReportKey = "internal-fleets-category" ->
               [sheet |-> "Internal Fleets", options |-> lists.internalFleetCategories,
                selected |-> f.selectedFleetCategory, column |-> "Fleet_Category"]
          [] f.activeReportKey = "internal-fleets-bu" ->
               [sheet |-> "Internal Fleets", options |-> lists.internalFleetBUs,
                selected |-> f.selectedBusinessUnit, column |-> "Business Units"]
          [] f.activeReportKey = "job-card-cluster" ->
               [sheet |-> "Job Card", options |-> lists.jobCardClusters,
                selected |-> f.selectedCluster, column |-> "Cluster"]
          [] f.activeReportKey = "job-card-bu" ->
               [sheet |-> "Job Card", options |-> lists.jobCardBUs,
                selected |-> f.selectedBusinessUnit, column |-> "Business Units"]
          [] f.activeReportKey = "driver-operator-designation" ->
               [sheet |-> "Driver & Operator", options |-> lists.driverOpDesignations,
                selected |-> f.selectedDesignation, column |-> "DESIGNATION"]
          [] OTHER ->
               [sheet |-> "Driver & Operator", options |-> lists.driverOpBUs,
                selected |-> f.selectedBusinessUnit, column |-> "BUSINESS UNITS"]

\* the effective value of a report's dropdown column in a row
SM_value(d, item) ==
    CASE d.column = "DESIGNATION" -> getDesignation(item)
      [] d.column = "BUSINESS UNITS" -> getDriverOperatorBU(item)
      [] OTHER -> Get(item, d.column)

SM_filtered(wb, f) ==
    LET d == SM_dropdown(wb, f)
    IN  FilterSeq(wb[d.sheet], {item \in Range(wb[d.sheet]) :
            /\ SM_dateMatch(d.sheet, item, f)
            /\ d.selected = sAll \/ StrictEq(SM_value(d, item), d.selected)})

\* the effect on [activeReportKey]: reset the secondary filters
SM_effects(f) ==
    IF f.effectKey # f.activeReportKey
    THEN [f EXCEPT !.selectedDesignation = sAll, !.selectedBusinessUnit = sAll,
                   !.selectedCluster = sAll, !.selectedFleetCategory = sAll,
                   !.effectKey = f.activeReportKey]
    ELSE f

SM_initialFilters ==
    [activeReportKey |-> "null", effectKey |-> "unmounted",
     selectedDesignation |-> sAll, selectedBusinessUnit |-> sAll,
     selectedMonth |-> sAll, selectedYear |-> sAll,
     selectedCluster |-> sAll, selectedFleetCategory |-> sAll]

ReportKeys == {"internal-fleets-category", "internal-fleets-bu", "job-card-cluster",
               "job-card-bu", "driver-operator-designation", "driver-operator-bu"}

(***************************************************************************)
(* Dashboard (Dashboard.tsx): date resolution and business-unit options    *)
(***************************************************************************)
RECURSIVE LeadingDigits(_)
LeadingDigits(s) ==
    IF s # <<>> /\ IsIn(Head(s), Digits) THEN <<Head(s)>> \o LeadingDigits(Tail(s)) ELSE <<>>

RECURSIVE DigitsToNat(_)
DigitsToNat(ds) ==
    IF ds = <<>> THEN 0
    ELSE 10 * DigitsToNat(SubSeq(ds, 1, Len(ds) - 1)) + (IndexOf(ds[Len(ds)], Digits) - 1)

\* parseInt(s, 10) for an unsigned numeral: Null stands for NaN
ParseInt(s) ==
    LET ds == LeadingDigits(TrimStart(s))
    IN  IF ds = <<>> THEN Null ELSE Num(DigitsToNat(ds))

\* MONTH_NAMES_ABBR.indexOf(name), 0-based, -1 when absent
MonthIndexOf(name) ==
    IF \E i \in 1..Len(MONTH_NAMES) : MONTH_NAMES[i] = name
    THEN (CHOOSE i \in 1..Len(MONTH_NAMES) : MONTH_NAMES[i] = name) - 1
    ELSE -1

\* the year of Date.UTC(y, ...): years 0..99 denote 1900..1999
UtcYear(y) == IF y <= 99 THEN 1900 + y ELSE y

getItemDate(item) ==
    IF IsValidDate(Get(item, "End Date")) THEN Get(item, "End Date")
    ELSE IF IsValidDate(Get(item, "Month")) THEN Get(item, "Month")
    ELSE IF IsValidDate(Get(item, "DATE")) THEN Get(item, "DATE")
    ELSE IF IsValidDate(Get(item, "Date:")) THEN Get(item, "Date:")
    ELSE LET monthStr == Coalesce(Get(item, "MONTH"), Get(item, "Month"))
             yearVal == Coalesce(Get(item, "YEAR"), Get(item, "Year"))
         IN  IF monthStr.k = "string" /\ ~IsNullish(yearVal)
             THEN LET yearNum == ParseInt(ToStr(yearVal))
                      monthIndex == MonthIndexOf(Substring0(ToUpperCase(monthStr.s), 3))
                  IN  IF yearNum.k = "number" /\ monthIndex > -1
                      THEN DateV(UtcYear(yearNum.n), monthIndex, 15)
                      ELSE Null
             ELSE Null

filterByDate(item, f) ==
    IF f.month = sAll /\ f.year = sAll THEN TRUE
    ELSE LET itemDate == getItemDate(item)
         IN  /\ itemDate.k = "date"
             /\ f.month = sAll \/ MONTH_NAMES[itemDate.m + 1] = f.month
             /\ f.year = sAll \/ NatToString(itemDate.y) = f.year

filterJobCardByDate(item, f) ==
    IF f.month = sAll /\ f.year = sAll THEN TRUE
    ELSE /\ JC_itemMonthName(item) # sNone /\ JC_itemYear(item) # sNone
         /\ f.month = sAll \/ JC_itemMonthName(item) = f.month
         /\ f.year = sAll \/ JC_itemYear(item) = f.year

DataSheets == {"Driver & Operator", "Fleet Management", "Job Card",
               "Internal Fleets", "External Fleets"}

\* buSet.add(bu) keeps the value as it is; the strings among them are listed
dynamicBusinessUnits(wb, f) ==
    OptionList({ToStr(getBusinessUnit(item)) :
        item \in UNION {
            {i \in Range(wb[sheet]) :
                /\ IF sheet = "Job Card" THEN filterJobCardByDate(i, f) ELSE filterByDate(i, f)
                /\ Truthy(getBusinessUnit(i))} : sheet \in DataSheets}})

\* the designation nodes the Dashboard offers for a click (DesignationSummary)
filterByBUAndDate(item, f) ==
    /\ f.businessUnit = sAll \/ StrictEq(getBusinessUnit(item), f.businessUnit)
    /\ filterByDate(item, f)

sHEAVY_DRIVER == <<"H","E","A","V","Y"," ","D","R","I","V","E","R">>
sLIGHT_DRIVER == <<"L","I","G","H","T"," ","D","R","I","V","E","R">>

DesignationNodes(wb, f) ==
    {sHEAVY_DRIVER, sLIGHT_DRIVER} \cup
    {ToUpperCase(Trim(getDesignation(item).s)) :
        item \in {i \in Range(wb["Driver & Operator"]) :
                    /\ filterByBUAndDate(i, f)
                    /\ getDesignation(i).k = "string"
                    /\ ToUpperCase(Trim(getDesignation(i).s)) # sNone}}

(***************************************************************************)
(* Dashboard (Dashboard.tsx): the metrics of the cards                     *)
(***************************************************************************)
\* the number an amount cell adds to a running sum; the amount cells of the
\* workbooks explored hold numbers or are absent
NumberOf(v) == IF v.k = "number" THEN v.n ELSE 0

RECURSIVE SumSeq(_)
SumSeq(ns) == IF ns = <<>> THEN 0 ELSE Head(ns) + SumSeq(Tail(ns))

\* rows.reduce((sum, i) => sum + (i[c] || 0), 0)
SumOr(rows, c) == SumSeq([n \in 1..Len(rows) |-> NumberOf(OrElse(Get(rows[n], c), Num(0)))])

\* rows.reduce((acc, item) => acc + (item[c] ?? 0), 0)
SumCoalesce(rows, c) ==
    SumSeq([n \in 1..Len(rows) |-> NumberOf(Coalesce(Get(rows[n], c), Num(0)))])

\* rows.reduce((acc, item) => acc + (item[upper] ?? item[title] ?? 0), 0)
SumCapsFirst(rows, upper, title) ==
    SumSeq([n \in 1..Len(rows) |->
        NumberOf(Coalesce(Get(rows[n], upper), Coalesce(Get(rows[n], title), Num(0))))])

\* a percentage (part / whole) * 100 is kept as the fraction n / d
Percentage(part, whole) == [n |-> 100 * part, d |-> whole]

ZeroPercentage == [n |-> 0, d |-> 1]

SamePercentage(p, q) == p.n * q.d = q.n * p.d

filterJobCardByBUAndDate(item, f) ==
    /\ f.businessUnit = sAll \/ StrictEq(getBusinessUnit(item), f.businessUnit)
    /\ filterJobCardByDate(item, f)

\* filtered, one sheet at a time
DB_filtered(wb, f, sheet) ==
    FilterSeq(wb[sheet], {i \in Range(wb[sheet]) :
        IF sheet = "Job Card" THEN filterJobCardByBUAndDate(i, f)
        ELSE filterByBUAndDate(i, f)})

jobCardRevenue(wb, f) ==
    LET rows == DB_filtered(wb, f, "Job Card")
    IN  SumSeq([n \in 1..Len(rows) |->
            NumberOf(OrElse(Get(rows[n], "Total amount with Service Charge"),
                     OrElse(Get(rows[n], "TOTAL AMOUNT WITH SERVICE CHARGE"), Num(0))))])

jobCardProfit(wb, f) == SumOr(DB_filtered(wb, f, "Job Card"), "Profit")

\* a variant that sums the rows' Expense column
jobCardCost_fromExpense(wb, f) == SumOr(DB_filtered(wb, f, "Job Card"), "Expense")

jobCardCost(wb, f) == jobCardRevenue(wb, f) - jobCardProfit(wb, f)

\* item[keyUpperCase] ?? item[keyTitleCase] ?? 0
getCaseInsensitiveValue(item, keyUpperCase, keyTitleCase) ==
    Coalesce(Get(item, keyUpperCase), Coalesce(Get(item, keyTitleCase), Num(0)))

SumCaseInsensitive(rows, keyUpperCase, keyTitleCase) ==
    SumSeq([n \in 1..Len(rows) |->
        NumberOf(getCaseInsensitiveValue(rows[n], keyUpperCase, keyTitleCase))])

fleetManagementRevenue(wb, f) == SumOr(DB_filtered(wb, f, "Fleet Management"), "Splited Amount")

fleetManagementPercentage(wb, f) ==
    IF f.month # sAll /\ f.businessUnit # sAll
    THEN LET all == wb["Fleet Management"]
             monthFilteredDataForPercentage ==
                 FilterSeq(all, {item \in Range(all) :
                     LET itemDate == getItemDate(item)
                     IN  /\ itemDate.k = "date"
                         /\ MONTH_NAMES[itemDate.m + 1] = f.month
                         /\ f.year = sAll \/ NatToString(itemDate.y) = f.year})
             totalMonthAmount == SumOr(monthFilteredDataForPercentage, "Splited Amount")
         IN  IF totalMonthAmount > 0
             THEN Percentage(fleetManagementRevenue(wb, f), totalMonthAmount)
             ELSE ZeroPercentage
    ELSE ZeroPercentage

revenueCards(wb, f) ==
    [driverOperator  |-> SumCaseInsensitive(DB_filtered(wb, f, "Driver & Operator"), "REVENUE", "Revenue"),
     external        |-> SumCaseInsensitive(DB_filtered(wb, f, "External Fleets"), "REVENUE", "Revenue"),
     jobCard         |-> jobCardRevenue(wb, f),
     fleetManagement |-> fleetManagementRevenue(wb, f)]

costCards(wb, f) ==
    [driverOperator  |-> SumCaseInsensitive(DB_filtered(wb, f, "Driver & Operator"), "EXPENSE", "Expense"),
     external        |-> SumCaseInsensitive(DB_filtered(wb, f, "External Fleets"), "COST", "Cost"),
     jobCard         |-> jobCardCost(wb, f),
     fleetManagement |-> 0]

profitCards(wb, f) ==
    [driverOperator  |-> SumCaseInsensitive(DB_filtered(wb, f, "Driver & Operator"), "PROFIT", "Profit"),
     external        |-> SumCaseInsensitive(DB_filtered(wb, f, "External Fleets"), "PROFIT", "Profit"),
     jobCard         |-> jobCardProfit(wb, f),
     fleetManagement |-> revenueCards(wb, f).fleetManagement - costCards(wb, f).fleetManagement]

\* new Set(rows.map(i => i['Invoice Number:'])).size
counts(wb, f) ==
    [driverOperator  |-> Len(DB_filtered(wb, f, "Driver & Operator")),
     externalInvoice |-> Cardinality({Get(i, "Invoice Number:") :
                                         i \in Range(DB_filtered(wb, f, "External Fleets"))}),
     jobCards        |-> Len(DB_filtered(wb, f, "Job Card"))]

(***************************************************************************)
(* The totals the detail views show above their tables (summaryData)       *)
(***************************************************************************)
DO_summaryData(filteredData) ==
    [totalRevenue |-> SumCoalesce(filteredData, "Revenue"),
     totalExpense |-> SumCoalesce(filteredData, "Expense"),
     totalProfit  |-> SumCoalesce(filteredData, "Profit"),
     recordCount  |-> Len(filteredData)]

DV_summaryData(filteredData) ==
    [totalRevenue |-> SumCapsFirst(filteredData, "REVENUE", "Revenue"),
     totalCost    |-> SumCapsFirst(filteredData, "COST", "Cost"),
     totalProfit  |-> SumCapsFirst(filteredData, "PROFIT", "Profit"),
     recordCount  |-> Len(filteredData),
     uniqueInvoiceCount |->
         Cardinality({Get(item, "Invoice Number:") :
             item \in {i \in Range(filteredData) :
                 /\ ~IsNullish(Get(i, "Invoice Number:"))
                 /\ Trim(ToStr(Get(i, "Invoice Number:"))) # sNone}})]

FM_summaryData(data, f) ==
    LET totalAmount == SumOr(FM_filteredData(data, f), "Splited Amount")
        monthFilteredData ==
            FilterSeq(data, {item \in Range(data) :
                /\ StrictEq(getMonthName(Get(item, "Month")), f.Month)
                /\ f.Year = sAll \/ ToStr(getYear(Get(item, "Month"))) = f.Year})
        totalMonthAmount == SumOr(monthFilteredData, "Splited Amount")
    IN  [totalAmount |-> totalAmount,
         percentage  |-> IF f.Month # sAll /\ f.BusinessUnits # sAll /\ totalMonthAmount > 0
                         THEN Percentage(totalAmount, totalMonthAmount)
                         ELSE ZeroPercentage]

JC_summaryData(filteredData) ==
    [totalAmount |-> SumSeq([n \in 1..Len(filteredData) |->
                        NumberOf(OrElse(Get(filteredData[n], "Total amount with Service Charge"),
                                 OrElse(Get(filteredData[n], "Total Amount w%"), Num(0))))]),
     totalProfit |-> SumOr(filteredData, "Profit"),
     recordCount |-> Len(filteredData)]

(***************************************************************************)
(* The workbooks explored                                                  *)
(***************************************************************************)
sJAN == MONTH_NAMES[1]
sFEB == MONTH_NAMES[2]
s2024 == YEARS[1]
sAlpha == <<"A","l","p","h","a">>
sBeta == <<"B","e","t","a">>
sOPERATOR == <<"O","P","E","R","A","T","O","R">>
sNorth == <<"N","o","r","t","h">>
sSouth == <<"S","o","u","t","h">>
sOwn == <<"O","w","n">>
sHired == <<"H","i","r","e","d">>
sAcme == <<"A","c","m","e">>
sZed == <<"Z","e","d">>
sFuel == <<"F","u","e","l">>
sTowing == <<"T","o","w","i","n","g">>
sA1 == <<"A","1">>
sB2 == <<"B","2">>

\* the months and years a user clicks, and the text typed into a search box
ClickMonths == {sJAN, sFEB}
ClickYears == {s2024}
SearchTexts == {sNone, <<"a">>}

DriverOperatorRows ==
    { [Month |-> Str(sJAN), Year |-> Num(2024), DESIGNATION |-> Str(sHEAVY_DRIVER)]
        @@ ("BUSINESS UNITS" :> Str(sAlpha)) @@ ("SAP NO." :> Str(sA1)),
      [Month |-> Str(sFEB), Year |-> Num(2024), DESIGNATION |-> Str(sOPERATOR)]
        @@ ("BUSINESS UNITS" :> Str(sBeta)) @@ ("SAP NO." :> Str(sB2)),
      [Designation |-> Str(sHEAVY_DRIVER)]
        @@ ("End Date" :> DateV(2025, 1, 15)) @@ ("Business Units" :> Str(sBeta)) }

JobCardRows ==
    { [Month |-> Str(sJAN), Year |-> Num(2024), Cluster |-> Str(sNorth)]
        @@ ("Business Units" :> Str(sAlpha)) @@ ("Reg / Fleet No:" :> Str(sA1)),
      [Month |-> Str(sFEB), Year |-> Num(2024), Cluster |-> Str(sSouth)]
        @@ ("Business Units" :> Str(sBeta)) @@ ("Plate #" :> Str(sB2)),
      [Month |-> Str(sFEB), Year |-> Num(2025)] @@ ("Reg / Fleet No:" :> Str(sA1)) }

InternalFleetRows ==
    { [MONTH |-> Str(sJAN), YEAR |-> Num(2024), Fleet_Category |-> Str(sOwn)]
        @@ ("Business Units" :> Str(sAlpha)) @@ ("Reg No:" :> Str(sA1))
        @@ ("R-Revenue" :> Num(5)) @@ ("F-Revenue" :> Num(0)),
      [MONTH |-> Str(sFEB), YEAR |-> Num(2024), Fleet_Category |-> Str(sHired)]
        @@ ("Business Units" :> Str(sBeta)) @@ ("Reg No:" :> Str(sB2))
        @@ ("F-Revenue" :> Num(3)),
      [MONTH |-> Str(sFEB), YEAR |-> Num(2025)] @@ ("Reg No:" :> Str(sA1))
        @@ ("R-Revenue" :> Num(5)) @@ ("F-Revenue" :> Num(3)) }

ExternalFleetRows ==
    { [Month |-> Str(sJAN), Year |-> Num(2024), Transmittal |-> Str(sA1)]
        @@ ("Business Units" :> Str(sAlpha)) @@ ("Supplier Name" :> Str(sAcme))
        @@ ("Type of Service" :> Str(sFuel)) @@ ("Reg No:" :> Str(sA1))
        @@ ("Invoice Number:" :> Str(sA1)),
      [Month |-> Str(sFEB), Year |-> Num(2024), Transmittal |-> Str(sB2)]
        @@ ("Business Units" :> Str(sBeta)) @@ ("Supplier Name" :> Str(sZed))
        @@ ("Type of Service" :> Str(sTowing)) @@ ("Reg No:" :> Str(sB2))
        @@ ("Invoice Number:" :> Num(7)),
      [Month |-> Str(sFEB), Year |-> Num(2025)] @@ ("Reg No:" :> Str(sA1)) }

FleetManagementRows ==
    { [Month |-> DateV(2024, 0, 15)] @@ ("Business Units" :> Str(sAlpha)) @@ ("Splited Amount" :> Num(10)),
      [Month |-> DateV(2024, 1, 15)] @@ ("Business Units" :> Str(sBeta)) @@ ("Splited Amount" :> Num(30)),
      [Month |-> DateV(2025, 1, 15)] @@ ("Business Units" :> Str(sAlpha)) @@ ("Splited Amount" :> Num(40)),
      [Month |-> InvalidDate] @@ ("Splited Amount" :> Num(50)) }

RowUniverse(sheet) ==
    CASE sheet = "Driver & Operator" -> DriverOperatorRows
      [] sheet = "Job Card" -> JobCardRows
      [] sheet = "Internal Fleets" -> InternalFleetRows
      [] sheet = "External Fleets" -> ExternalFleetRows
      [] OTHER -> FleetManagementRows

\* every row collection of at most n rows over a universe
RowSeqs(U, n) == UNION {[1..k -> U] : k \in 0..n}

\* the rows of the sheets that are not enumerated: one Beta row each
OtherRows(sheet) ==
    CASE sheet = "Driver & Operator" ->
            << [Month |-> Str(sFEB), Year |-> Num(2024), DESIGNATION |-> Str(sOPERATOR)]
                 @@ ("BUSINESS UNITS" :> Str(sBeta)) @@ ("SAP NO." :> Str(sA1)) >>
      [] sheet = "Job Card" ->
            << [Month |-> Str(sFEB), Year |-> Num(2024), Cluster |-> Str(sSouth)]
                 @@ ("Business Units" :> Str(sBeta)) @@ ("Plate #" :> Str(sA1)) >>
      [] sheet = "Internal Fleets" ->
            << [MONTH |-> Str(sFEB), YEAR |-> Num(2024), Fleet_Category |-> Str(sHired)]
                 @@ ("Business Units" :> Str(sBeta)) @@ ("Reg No:" :> Str(sA1))
                 @@ ("R-Revenue" :> Num(5)) @@ ("F-Revenue" :> Num(3)) >>
      [] sheet = "External Fleets" ->
            << [Month |-> Str(sFEB), Year |-> Num(2024)]
                 @@ ("Business Units" :> Str(sBeta)) @@ ("Supplier Name" :> Str(sZed))
                 @@ ("Type of Service" :> Str(sFuel)) @@ ("Reg No:" :> Str(sA1)) >>
      [] OTHER ->
            << [Month |-> DateV(2024, 1, 15)] @@ ("Business Units" :> Str(sBeta))
                 @@ ("Splited Amount" :> Num(30)) >>

\* the workbook whose sheet `sheet` holds `rows`
Workbook(sheet, rows) ==
    [s \in DataSheets \cup {"Dashboard"} |->
        IF s = sheet THEN rows ELSE IF s = "Dashboard" THEN <<>> ELSE OtherRows(s)]

NULL == [null |-> TRUE]

\* DataTable's initial sortConfig: { key: '', direction: null }
NoSort == [key |-> "", direction |-> "null"]

(***************************************************************************)
(* The view-state machine                                                  *)
(***************************************************************************)
DetailViews == DataSheets

Unmounted == [unmounted |-> TRUE]

\* useState initial value of `filters` when a view mounts
InitialFilters(view, shared) ==
    CASE view = "Driver & Operator" -> DO_initialFilters(shared)
      [] view = "Job Card" -> JC_initialFilters(shared)
      [] view = "Internal Fleets" -> IF_initialFilters(shared)
      [] view = "External Fleets" -> DV_initialFilters(shared)
      [] view = "Fleet Management" -> FM_initialFilters(shared)
      [] view = "Summary" -> SM_initialFilters
      [] OTHER -> Unmounted

\* useState initial values of the text searches
InitialTexts(view) ==
    CASE view = "Driver & Operator" -> [sapFilter |-> sNone]
      [] view \in {"Job Card", "Internal Fleets"} -> [searchFilter |-> sNone]
      [] view = "External Fleets" ->
            [regNoFilter |-> sNone, transmittalFilter |-> sNone, invoiceFilter |-> sNone]
      [] OTHER -> <<>>

\* the filter keys behind the dropdowns of a detail view
DropdownKeysOf(view) ==
    CASE view = "Driver & Operator" -> {"BusinessUnits", "Designation"}
      [] view = "Job Card" -> {"BusinessUnits", "Cluster"}
      [] view = "Internal Fleets" -> {"BusinessUnits", "Fleet_Category"}
      [] view = "External Fleets" -> {"BusinessUnit", "Supplier"}
      [] view = "Fleet Management" -> {"BusinessUnits"}
      [] OTHER -> {}

\* the option list a detail view passes to the dropdown behind a filter key
Options(view, wb, f, t, key) ==
    CASE view = "Driver & Operator" /\ key = "BusinessUnits" -> DO_businessUnitsList(wb[view], f, t)
      [] view = "Driver & Operator" -> DO_designationsList(wb[view], f, t)
      [] view = "Job Card" /\ key = "BusinessUnits" -> JC_businessUnits(wb[view], f, t)
      [] view = "Job Card" -> JC_clusters(wb[view], f, t)
      [] view = "Internal Fleets" /\ key = "BusinessUnits" -> IF_businessUnits(wb[view], f, t)
      [] view = "Internal Fleets" -> IF_fleetCategories(wb[view], f, t)
      [] view = "External Fleets" /\ key = "BusinessUnit" -> DV_businessUnits(wb[view], f, t)
      [] view = "External Fleets" -> DV_suppliers(wb[view], f, t)
      [] OTHER -> FM_dynamicOptions(wb[view], f).businessUnits

\* the filtered subset a detail view shows
FilteredData(view, wb, f, t, shared) ==
    CASE view = "Driver & Operator" -> DO_filteredData(wb[view], f, t)
      [] view = "Job Card" -> JC_filteredData(wb[view], f, t)
      [] view = "Internal Fleets" -> IF_filteredData(wb[view], f, t, shared.internalType)
      [] view = "External Fleets" -> DV_filteredData(wb[view], f, t)
      [] OTHER -> FM_filteredData(wb[view], f)

\* one pass of the effects of the mounted view over the committed render
Effects(view, wb, f, t) ==
    CASE view = "Driver & Operator" -> DO_effects(wb[view], f, t)
      [] view = "Job Card" -> JC_effects(wb[view], f, t)
      [] view = "Internal Fleets" -> IF_effects(wb[view], f, t)
      [] view = "External Fleets" -> DV_effects(wb[view], f, t)
      [] view = "Fleet Management" -> FM_effects(wb[view], f)
      [] view = "Summary" -> SM_effects(f)
      [] OTHER -> f

\* the values on offer in the dropdown behind a filter key of the mounted view
OfferedOptions(key) ==
    IF key \in DropdownKeysOf(activeView)
    THEN Range(Options(activeView, excelData, filters, texts, key))
    ELSE {}

OfferedServices ==
    IF activeView = "External Fleets"
    THEN Range(DV_typesOfService(excelData[activeView], filters, texts))
    ELSE {}

SM_offeredOptions ==
    IF activeView = "Summary" THEN Range(SM_dropdown(excelData, filters).options) ELSE {}

\* handleMonthFilterClick: clicking the active month toggles it off
handleMonthFilterClick(month) ==
    /\ activeView \in DetailViews /\ ~effectsPending
    /\ filters' = [filters EXCEPT !.Month = IF @ = month THEN sAll ELSE month]
    /\ effectsPending' = TRUE
    /\ UNCHANGED <<excelData, activeView, sharedFilters, texts, sharedSeen, sortConfig, selectedVehicle>>
    /\ UNCHANGED appVars

handleYearFilterClick(year) ==
    /\ activeView \in DetailViews /\ ~effectsPending
    /\ filters' = [filters EXCEPT !.Year = IF @ = year THEN sAll ELSE year]
    /\ effectsPending' = TRUE
    /\ UNCHANGED <<excelData, activeView, sharedFilters, texts, sharedSeen, sortConfig, selectedVehicle>>
    /\ UNCHANGED appVars

\* SearchableDropdown onChange: the user picks one of the options shown
SelectOption(key, value) ==
    /\ activeView \in DetailViews /\ ~effectsPending
    /\ key \in DropdownKeysOf(activeView)
    /\ value \in OfferedOptions(key)
    /\ filters' = [filters EXCEPT ![key] = value]
    /\ effectsPending' = TRUE
    /\ UNCHANGED <<excelData, activeView, sharedFilters, texts, sharedSeen, sortConfig, selectedVehicle>>
    /\ UNCHANGED appVars

\* handleTypeOfServiceChange on one of the services listed in the dropdown
handleTypeOfServiceChange(service) ==
    /\ activeView = "External Fleets" /\ ~effectsPending
    /\ service \in OfferedServices
    /\ filters' = DV_toggleService(filters, service)
    /\ effectsPending' = TRUE
    /\ UNCHANGED <<excelData, activeView, sharedFilters, texts, sharedSeen, sortConfig, selectedVehicle>>
    /\ UNCHANGED appVars

\* typing into a search box (setSapFilter, setSearchFilter, setRegNoFilter, ...);
\* the user works with one search box of the External Fleets view at a time
SetTextFilter(box, text) ==
    /\ activeView \in DetailViews /\ ~effectsPending
    /\ box \in DOMAIN InitialTexts(activeView)
    /\ \A other \in DOMAIN texts \ {box} : texts[other] = sNone
    /\ texts' = [texts EXCEPT ![box] = text]
    /\ texts' # texts
    /\ effectsPending' = TRUE
    /\ UNCHANGED <<excelData, activeView, sharedFilters, filters, sharedSeen, sortConfig, selectedVehicle>>
    /\ UNCHANGED appVars

\* Summary: choosing a report from the menus
SM_setActiveReportKey(key) ==
    /\ activeView = "Summary" /\ ~effectsPending
    /\ filters' = [filters EXCEPT !.activeReportKey = key]
    /\ effectsPending' = TRUE
    /\ UNCHANGED <<excelData, activeView, sharedFilters, texts, sharedSeen, sortConfig, selectedVehicle>>
    /\ UNCHANGED appVars

SM_setSelectedMonth(month) ==
    /\ activeView = "Summary" /\ ~effectsPending
    /\ filters' = [filters EXCEPT !.selectedMonth = IF @ = month THEN sAll ELSE month]
    /\ effectsPending' = TRUE
    /\ UNCHANGED <<excelData, activeView, sharedFilters, texts, sharedSeen, sortConfig, selectedVehicle>>
    /\ UNCHANGED appVars

SM_setSelectedYear(year) ==
    /\ activeView = "Summary" /\ ~effectsPending
    /\ filters' = [filters EXCEPT !.selectedYear = IF @ = year THEN sAll ELSE year]
    /\ effectsPending' = TRUE
    /\ UNCHANGED <<excelData, activeView, sharedFilters, texts, sharedSeen, sortConfig, selectedVehicle>>
    /\ UNCHANGED appVars

\* the state key behind the dropdown of the active report
SM_selectedKey(f) ==
    CASE f.activeReportKey = "internal-fleets-category" -> "selectedFleetCategory"
      [] f.activeReportKey = "job-card-cluster" -> "selectedCluster"
      [] f.activeReportKey = "driver-operator-designation" -> "selectedDesignation"
      [] OTHER -> "selectedBusinessUnit"

SM_select(value) ==
    /\ activeView = "Summary" /\ ~effectsPending
    /\ filters.activeReportKey \in ReportKeys
    /\ value \in SM_offeredOptions
    /\ filters' = [filters EXCEPT ![SM_selectedKey(filters)] = value]
    /\ effectsPending' = TRUE
    /\ UNCHANGED <<excelData, activeView, sharedFilters, texts, sharedSeen, sortConfig, selectedVehicle>>
    /\ UNCHANGED appVars

\* the push-down effect of a detail view: setFilters(prev => ({...prev, Month:
\* sharedFilters.month, ...})); the Summary view has none
\* a variant that also puts every view-local dropdown back to "All"
PushDown_clearsLocal(view, shared, f) ==
    CASE view = "Driver & Operator" ->
            [f EXCEPT !.Month = shared.month, !.Year = shared.year,
                      !.BusinessUnits = shared.businessUnit,
                      !.Designation = shared.designation]
      [] view = "External Fleets" ->
            [f EXCEPT !.Month = shared.month, !.Year = shared.year,
                      !.BusinessUnit = shared.businessUnit, !.Supplier = sAll]
      [] view = "Job Card" ->
            [f EXCEPT !.Month = shared.month, !.Year = shared.year,
                      !.BusinessUnits = shared.businessUnit, !.Cluster = sAll]
      [] view = "Internal Fleets" ->
            [f EXCEPT !.Month = shared.month, !.Year = shared.year,
                      !.BusinessUnits = shared.businessUnit, !.Fleet_Category = sAll]
      [] view = "Fleet Management" ->
            [f EXCEPT !.Month = shared.month, !.Year = shared.year,
                      !.BusinessUnits = shared.businessUnit]
      [] OTHER -> f

\* the updater the push-down effect of a view queues: prev => ({...prev, ...})
PushDown(view, shared, f) ==
    CASE view = "Driver & Operator" ->
            [f EXCEPT !.Month = shared.month, !.Year = shared.year,
                      !.BusinessUnits = shared.businessUnit,
                      !.Designation = shared.designation]
      [] view = "External Fleets" ->
            [f EXCEPT !.Month = shared.month, !.Year = shared.year,
                      !.BusinessUnit = shared.businessUnit]
      [] view \in {"Job Card", "Internal Fleets", "Fleet Management"} ->
            [f EXCEPT !.Month = shared.month, !.Year = shared.year,
                      !.BusinessUnits = shared.businessUnit]
      [] OTHER -> f

\* React runs the effects of the committed render before the next event.  The
\* push-down effect runs when its dependencies changed (always on mount); the
\* stale-selection effects test the rendered filters and option lists.  All of
\* them queue functional updaters, applied in declaration order.
RunEffects ==
    /\ effectsPending /\ activeView # "Dashboard"
    /\ LET pushed == IF sharedSeen # sharedFilters
                     THEN PushDown(activeView, sharedFilters, filters) ELSE filters
           reset  == Effects(activeView, excelData, filters, texts)
       IN  filters' = [k \in DOMAIN filters |->
                          IF reset[k] # filters[k] THEN reset[k] ELSE pushed[k]]
    /\ sharedSeen' = sharedFilters
    /\ effectsPending' = (filters' # filters)
    /\ UNCHANGED <<excelData, activeView, sharedFilters, texts, sortConfig, selectedVehicle>>
    /\ UNCHANGED appVars

\* a loaded session as the App holds it while the views are used
LoadedFile == "fleet.xlsx"

Stamp(n) == [t |-> n]

NoMessage == [type |-> "none"]

NoWorkers == [u \in 1..MaxUploads |-> [state |-> "none", msg |-> NoMessage, result |-> "none"]]

NoneDelivered == [u \in 1..MaxUploads |-> 0]

\* Date.toISOString and new Date(isoString)
ToISOString(stamp) == [iso |-> stamp.t]

FromISOString(text) == [t |-> text.iso]

\* the record kept under 'sessionData'
Session(wb, name, stamp) ==
    [excelData |-> wb, fileName |-> name, uploadTimestamp |-> ToISOString(stamp)]

\* the views opened over a workbook; the Summary view is opened over the
\* workbooks whose Job Card sheet varies
ViewsOf(sheet) == {sheet} \cup (IF sheet = "Job Card" THEN {"Summary"} ELSE {})

InternalTypes == {"All", "Rental", "Fuel"}

\* what the Dashboard can have left in sharedFilters when the view is opened:
\* all dates, and at most one of its three selections away from All
SharedChoices(view, wb) ==
    LET bus == IF view = "Summary" THEN {sAll}
               ELSE {sAll, sBeta} \cap
                    Range(dynamicBusinessUnits(wb, [month |-> sAll, year |-> sAll]))
        its == IF view = "Internal Fleets" THEN InternalTypes ELSE {"All"}
        dgs == IF view = "Driver & Operator"
               THEN {sAll, sLIGHT_DRIVER} \cap
                    ({sAll} \cup DesignationNodes(wb, [month |-> sAll, year |-> sAll,
                                                      businessUnit |-> sAll]))
               ELSE {sAll}
    IN  {shared \in {[month |-> sAll, year |-> sAll, businessUnit |-> bu,
                      internalType |-> it, designation |-> dg] :
                          bu \in bus, it \in its, dg \in dgs} :
            \/ shared.businessUnit = sAll /\ shared.internalType = "All"
            \/ shared.businessUnit = sAll /\ shared.designation = sAll
            \/ shared.internalType = "All" /\ shared.designation = sAll}

\* a view has just been mounted over a loaded workbook
Init ==
    \E sheet \in DataSheets :
      \E rows \in RowSeqs(RowUniverse(sheet), MaxRows), view \in ViewsOf(sheet) :
        \E shared \in SharedChoices(view, Workbook(sheet, rows)) :
          /\ excelData = Workbook(sheet, rows)
          /\ activeView = view
          /\ sharedFilters = shared
          /\ filters = InitialFilters(view, shared)
          /\ texts = InitialTexts(view)
          /\ effectsPending = TRUE
          /\ sharedSeen = Unmounted
          /\ fileName = LoadedFile
          /\ uploadTimestamp = Stamp(1)
          /\ isLoading = FALSE
          /\ error = "null"
          /\ warnings = <<>>
          /\ workers = NoWorkers
          /\ delivered = NoneDelivered
          /\ idb = Session(Workbook(sheet, rows), LoadedFile, Stamp(1))
          /\ idbQueue = <<>>
          /\ loadState = "done"
          /\ priorSession = NULL
          /\ sortConfig = NoSort
          /\ selectedVehicle = NULL

\* the values that occur in the workbooks explored, per filter key
SelectionsOf(key) ==
    CASE key \in {"BusinessUnits", "BusinessUnit"} -> {sAll, sAlpha, sBeta}
      [] key = "Designation" -> {sAll, sHEAVY_DRIVER, sOPERATOR, sLIGHT_DRIVER}
      [] key = "Cluster" -> {sAll, sNorth, sSouth}
      [] key = "Fleet_Category" -> {sAll, sOwn, sHired}
      [] OTHER -> {sAll, sAcme, sZed}

SearchBoxes == {"sapFilter", "searchFilter", "regNoFilter", "transmittalFilter", "invoiceFilter"}

FilterKeys == {"BusinessUnits", "BusinessUnit", "Designation", "Cluster",
               "Fleet_Category", "Supplier"}

Next ==
    \/ \E month \in ClickMonths : handleMonthFilterClick(month)
    \/ \E year \in ClickYears : handleYearFilterClick(year)
    \/ \E key \in FilterKeys : \E value \in SelectionsOf(key) : SelectOption(key, value)
    \/ \E service \in {sFuel, sTowing} : handleTypeOfServiceChange(service)
    \/ \E box \in SearchBoxes, text \in SearchTexts : SetTextFilter(box, text)
    \/ \E key \in ReportKeys : SM_setActiveReportKey(key)
    \/ \E month \in ClickMonths : SM_setSelectedMonth(month)
    \/ \E year \in ClickYears : SM_setSelectedYear(year)
    \/ \E value \in UNION {SelectionsOf(key) : key \in FilterKeys} : SM_select(value)
    \/ RunEffects

Spec == Init /\ [][Next]_vars

(***************************************************************************)
(* The session machine (App): initial load, upload, IndexedDB mirror, Reset *)
(***************************************************************************)
NoFile == ""

\* the files a user uploads: the sheets they hold, or bytes XLSX.read rejects
\* the rows sheet_to_json yields for the Internal Fleets sheet of the files
\* uploaded: a vehicle, and a row whose registration cell is blank
InternalSheetRows ==
    OtherRows("Internal Fleets") \o << [MONTH |-> Str(sFEB)] @@ ("R-Revenue" :> Num(5)) >>

GoodFile == [name |-> "fleet.xlsx", readable |-> TRUE, sheets |-> DataSheets \cup {"Dashboard"},
             internal |-> InternalSheetRows]

PartialFile == [name |-> "partial.xlsx", readable |-> TRUE,
                sheets |-> {"Fleet Management", "Internal Fleets"},
                internal |-> InternalSheetRows]

CorruptFile == [name |-> "corrupt.xlsx", readable |-> FALSE, sheets |-> {}, internal |-> <<>>]

\* the files uploaded; the complete one is what an earlier visit stored
Files == {PartialFile, CorruptFile}

\* sheet_to_json of a sheet of an uploaded file
RawRows(file, sheet) ==
    IF sheet = "Dashboard" THEN <<>>
    ELSE IF sheet = "Internal Fleets" THEN file.internal
         ELSE OtherRows(sheet)

sheetsToParse ==
    <<"Dashboard", "Fleet Management", "Driver & Operator", "Job Card",
      "Internal Fleets", "External Fleets">>

\* key.trim() on the column headers the sheets carry
cleanedKey(key) ==
    CASE key = " MONTH" -> "MONTH"
      [] key = "Reg No: " -> "Reg No:"
      [] OTHER -> key

\* a valid Date is rebuilt at midnight UTC from its local year, month and
\* day; every other value passes through
cleanedValue(value) ==
    IF value.k = "date" THEN DateV(value.y, value.m, value.d) ELSE value

\* the row with trimmed keys (no sheet carries two headers that differ only
\* in whitespace)
cleanedRow(row) ==
    [k \in {cleanedKey(key) : key \in DOMAIN row} |->
        cleanedValue(row[CHOOSE key \in DOMAIN row : cleanedKey(key) = k])]

cleanedJson(rawJson) == [i \in 1..Len(rawJson) |-> cleanedRow(rawJson[i])]

\* a worker that keeps every row of the Internal Fleets sheet
ParsedRows_keepsBlank(file, sheet) == cleanedJson(RawRows(file, sheet))

\* the rows the worker keeps of a sheet it found
ParsedRows(file, sheet) ==
    IF sheet = "Internal Fleets"
    THEN cleanedJson(FilterSeq(RawRows(file, sheet), {row \in Range(RawRows(file, sheet)) :
            Truthy(Get(row, "Reg No:")) /\ Trim(ToStr(Get(row, "Reg No:"))) # sNone}))
    ELSE cleanedJson(RawRows(file, sheet))

SheetNotFound(sheet) == <<"Sheet", sheet, "was not found">>

\* the message the worker posts for a file (self.onmessage)
WorkerOutcome(file) ==
    IF file.readable
    THEN [type |-> "success",
          data |-> [sheet \in Range(sheetsToParse) |->
                        IF sheet \in file.sheets THEN ParsedRows(file, sheet) ELSE <<>>],
          warnings |-> [i \in 1..Len(FilterSeq(sheetsToParse, Range(sheetsToParse) \ file.sheets)) |->
                        SheetNotFound(FilterSeq(sheetsToParse, Range(sheetsToParse) \ file.sheets)[i])]]
    ELSE [type |-> "error", error |-> "File is not a workbook"]

LoadFailedMessage == "Failed to load data from previous session. Please upload a file."

SaveFailedMessage ==
    "Could not save the file for future sessions due to a browser storage error. The app will work correctly for this session."

ProcessingFailedMessage == "Error processing file"

WorkerFailedMessage == "An unexpected worker error occurred"

\* the session a previous visit may have left in the object store
StoredSession == Session(WorkerOutcome(GoodFile).data, "stored.xlsx", Stamp(0))

\* the in-memory session
InMemorySession == [data |-> excelData, fileName |-> fileName, timestamp |-> uploadTimestamp]

fileLoaded == excelData # NULL

\* the views are rendered only while excelData is set
UnmountView ==
    /\ filters' = Unmounted
    /\ texts' = <<>>
    /\ effectsPending' = FALSE
    /\ sharedSeen' = Unmounted
    /\ sortConfig' = NoSort
    /\ selectedVehicle' = NULL

\* a view is mounted with fresh state; the Dashboard keeps its filters in
\* sharedFilters
MountView(view) ==
    /\ filters' = InitialFilters(view, sharedFilters)
    /\ texts' = InitialTexts(view)
    /\ effectsPending' = (view # "Dashboard" \/ sharedFilters.businessUnit # sAll)
    /\ sharedSeen' = Unmounted
    /\ sortConfig' = NoSort
    /\ selectedVehicle' = NULL

NextUpload == 1 + Cardinality({u \in 1..MaxUploads : workers[u].state # "none"})

AppInit ==
    /\ excelData = NULL
    /\ activeView = "Dashboard"
    /\ sharedFilters = [month |-> sAll, year |-> sAll, businessUnit |-> sAll,
                        internalType |-> "All", designation |-> sAll]
    /\ filters = Unmounted
    /\ texts = <<>>
    /\ effectsPending = FALSE
    /\ sharedSeen = Unmounted
    /\ fileName = NoFile
    /\ uploadTimestamp = NULL
    /\ isLoading = TRUE
    /\ error = "null"
    /\ warnings = <<>>
    /\ workers = NoWorkers
    /\ delivered = NoneDelivered
    /\ idb \in {NULL, StoredSession}
    /\ idbQueue = <<>>
    /\ loadState = "mounted"
    /\ priorSession = NULL
    /\ sortConfig = NoSort
    /\ selectedVehicle = NULL

\* the mount effect: loadData() issues idbGet('sessionData')
loadData ==
    /\ loadState = "mounted"
    /\ loadState' = "reading"
    /\ idbQueue' = Append(idbQueue, [op |-> "get", by |-> "load", upload |-> 0, value |-> NULL])
    /\ UNCHANGED <<excelData, fileName, uploadTimestamp, isLoading, error, warnings,
                   workers, delivered, idb, priorSession>>
    /\ UNCHANGED viewVars

\* handleFileUpload: the input is disabled while isLoading
handleFileUpload(file) ==
    /\ ~isLoading
    /\ NextUpload <= MaxUploads
    /\ priorSession' = InMemorySession
    /\ isLoading' = TRUE
    /\ error' = "null"
    /\ warnings' = <<>>
    /\ fileName' = file.name
    /\ excelData' = NULL
    /\ workers' = [workers EXCEPT ![NextUpload] = [state |-> "parsing", msg |-> NoMessage, result |-> "none", file |-> file]]
    /\ UnmountView
    /\ UNCHANGED <<activeView, sharedFilters, uploadTimestamp, delivered, idb, idbQueue, loadState>>

\* the worker script runs its onmessage handler on the posted file and posts
\* one message
WorkerPosts(u) ==
    /\ workers[u].state = "parsing"
    /\ workers' = [workers EXCEPT ![u].state = "posted", ![u].msg = WorkerOutcome(workers[u].file)]
    /\ UNCHANGED <<excelData, fileName, uploadTimestamp, isLoading, error, warnings,
                   delivered, idb, idbQueue, loadState, priorSession>>
    /\ UNCHANGED viewVars

\* the worker script fails to load (importScripts): an error event is queued
WorkerCrashes(u) ==
    /\ workers[u].state = "parsing"
    /\ workers' = [workers EXCEPT ![u].state = "crashed"]
    /\ UNCHANGED <<excelData, fileName, uploadTimestamp, isLoading, error, warnings,
                   delivered, idb, idbQueue, loadState, priorSession>>
    /\ UNCHANGED viewVars

\* worker.onmessage, success branch, up to the await of idbSet
OnMessageSuccess(u) ==
    /\ workers[u].state = "posted" /\ workers[u].msg.type = "success"
    /\ excelData' = workers[u].msg.data
    /\ warnings' = workers[u].msg.warnings
    /\ uploadTimestamp' = Stamp(u)
    /\ activeView' = "Dashboard"
    /\ MountView("Dashboard")
    /\ idbQueue' = Append(idbQueue,
          [op |-> "set", by |-> "upload", upload |-> u,
           value |-> Session(workers[u].msg.data, workers[u].file.name, Stamp(u))])
    /\ workers' = [workers EXCEPT ![u].state = "awaitSave"]
    /\ delivered' = [delivered EXCEPT ![u] = @ + 1]
    /\ UNCHANGED <<sharedFilters, fileName, isLoading, error, idb, loadState, priorSession>>

\* worker.onmessage, error branch
OnMessageError(u) ==
    /\ workers[u].state = "posted" /\ workers[u].msg.type = "error"
    /\ error' = ProcessingFailedMessage
    /\ excelData' = NULL
    /\ fileName' = NoFile
    /\ uploadTimestamp' = NULL
    /\ isLoading' = FALSE
    /\ workers' = [workers EXCEPT ![u].state = "terminated", ![u].result = "failed"]
    /\ delivered' = [delivered EXCEPT ![u] = @ + 1]
    /\ UnmountView
    /\ UNCHANGED <<activeView, sharedFilters, warnings, idb, idbQueue, loadState, priorSession>>

\* worker.onerror
OnError(u) ==
    /\ workers[u].state = "crashed"
    /\ error' = WorkerFailedMessage
    /\ excelData' = NULL
    /\ fileName' = NoFile
    /\ uploadTimestamp' = NULL
    /\ isLoading' = FALSE
    /\ workers' = [workers EXCEPT ![u].state = "terminated", ![u].result = "failed"]
    /\ delivered' = [delivered EXCEPT ![u] = @ + 1]
    /\ UnmountView
    /\ UNCHANGED <<activeView, sharedFilters, warnings, idb, idbQueue, loadState, priorSession>>

\* a variant of the rejected save that also drops the rows
IdbSetFails_dropsSession(u) ==
    /\ idbQueue # <<>> /\ Head(idbQueue).op = "set" /\ Head(idbQueue).upload = u
    /\ idbQueue' = Tail(idbQueue)
    /\ error' = SaveFailedMessage
    /\ excelData' = NULL
    /\ isLoading' = FALSE
    /\ workers' = [workers EXCEPT ![u].state = "terminated", ![u].result = "saveFailed"]
    /\ UnmountView
    /\ UNCHANGED <<activeView, sharedFilters, fileName, uploadTimestamp, warnings,
                   delivered, idb, loadState, priorSession>>

\* idbSet rejects (open or transaction error): the catch, then the tail of
\* worker.onmessage
IdbSetFails(u) ==
    /\ idbQueue # <<>> /\ Head(idbQueue).op = "set" /\ Head(idbQueue).upload = u
    /\ idbQueue' = Tail(idbQueue)
    /\ error' = SaveFailedMessage
    /\ isLoading' = FALSE
    /\ workers' = [workers EXCEPT ![u].state = "terminated", ![u].result = "saveFailed"]
    /\ UNCHANGED <<excelData, fileName, uploadTimestamp, warnings, delivered, idb,
                   loadState, priorSession>>
    /\ UNCHANGED viewVars

\* a variant of the completed save that leaves the spinner on and the worker alive
IdbSetDone_keepsLoading(u) ==
    /\ idbQueue # <<>> /\ Head(idbQueue).op = "set" /\ Head(idbQueue).upload = u
    /\ idbQueue' = Tail(idbQueue)
    /\ idb' = Head(idbQueue).value
    /\ UNCHANGED <<excelData, fileName, uploadTimestamp, isLoading, error, warnings,
                   workers, delivered, loadState, priorSession>>
    /\ UNCHANGED viewVars

\* idbSet resolves: the tail of worker.onmessage
IdbSetDone(u) ==
    /\ idbQueue # <<>> /\ Head(idbQueue).op = "set" /\ Head(idbQueue).upload = u
    /\ idbQueue' = Tail(idbQueue)
    /\ idb' = Head(idbQueue).value
    /\ isLoading' = FALSE
    /\ workers' = [workers EXCEPT ![u].state = "terminated", ![u].result = "saved"]
    /\ UNCHANGED <<excelData, fileName, uploadTimestamp, error, warnings, delivered,
                   loadState, priorSession>>
    /\ UNCHANGED viewVars

\* idbGet resolves in loadData: a stored session is adopted
\* a variant of the restore that keeps the stored timestamp text as it is
IdbGetDone_keepsTimestampText ==
    /\ idbQueue # <<>> /\ Head(idbQueue).op = "get"
    /\ idbQueue' = Tail(idbQueue)
    /\ IF idb # NULL
       THEN /\ excelData' = idb.excelData
            /\ fileName' = idb.fileName
            /\ uploadTimestamp' = idb.uploadTimestamp
            /\ activeView' = "Dashboard"
            /\ MountView("Dashboard")
       ELSE /\ UNCHANGED <<excelData, fileName, uploadTimestamp>>
            /\ UNCHANGED <<activeView, filters, texts, effectsPending, sharedSeen, sortConfig, selectedVehicle>>
    /\ isLoading' = FALSE
    /\ loadState' = "done"
    /\ UNCHANGED <<sharedFilters, error, warnings, workers, delivered, idb, priorSession>>

IdbGetDone ==
    /\ idbQueue # <<>> /\ Head(idbQueue).op = "get"
    /\ idbQueue' = Tail(idbQueue)
    /\ IF idb # NULL
       THEN /\ excelData' = idb.excelData
            /\ fileName' = idb.fileName
            /\ uploadTimestamp' = FromISOString(idb.uploadTimestamp)
            /\ activeView' = "Dashboard"
            /\ MountView("Dashboard")
       ELSE /\ UNCHANGED <<excelData, fileName, uploadTimestamp>>
            /\ UNCHANGED <<activeView, filters, texts, effectsPending, sharedSeen, sortConfig, selectedVehicle>>
    /\ isLoading' = FALSE
    /\ loadState' = "done"
    /\ UNCHANGED <<sharedFilters, error, warnings, workers, delivered, idb, priorSession>>

\* idbGet rejects in loadData: the catch sets the error and awaits idbClear
IdbGetFails ==
    /\ idbQueue # <<>> /\ Head(idbQueue).op = "get"
    /\ idbQueue' = Append(Tail(idbQueue), [op |-> "clear", by |-> "load", upload |-> 0, value |-> NULL])
    /\ error' = LoadFailedMessage
    /\ loadState' = "clearing"
    /\ UNCHANGED <<excelData, fileName, uploadTimestamp, isLoading, warnings, workers,
                   delivered, idb, priorSession>>
    /\ UNCHANGED viewVars

\* handleClearSession: the Reset button is rendered while a file is loaded;
\* the handler awaits idbClear before it touches the state
handleClearSession ==
    /\ fileLoaded /\ ~effectsPending
    /\ Cardinality({i \in 1..Len(idbQueue) : idbQueue[i].by = "reset"}) < MaxPendingResets
    /\ idbQueue' = Append(idbQueue, [op |-> "clear", by |-> "reset", upload |-> 0, value |-> NULL])
    /\ UNCHANGED <<excelData, fileName, uploadTimestamp, isLoading, error, warnings,
                   workers, delivered, idb, loadState, priorSession>>
    /\ UNCHANGED viewVars
\* a Reset that empties the memory and leaves the store as it is
IdbClearDone_keepsStore ==
    /\ idbQueue # <<>> /\ Head(idbQueue).op = "clear"
    /\ idbQueue' = Tail(idbQueue)
    /\ idb' = idb
    /\ IF Head(idbQueue).by = "reset"
       THEN /\ excelData' = NULL
            /\ fileName' = NoFile
            /\ uploadTimestamp' = NULL
            /\ error' = "null"
            /\ warnings' = <<>>
            /\ activeView' = "Dashboard"
            /\ UnmountView
            /\ UNCHANGED <<isLoading, loadState>>
       ELSE /\ isLoading' = FALSE
            /\ loadState' = "done"
            /\ UNCHANGED <<excelData, fileName, uploadTimestamp, error, warnings>>
            /\ UNCHANGED <<activeView, filters, texts, effectsPending, sharedSeen, sortConfig, selectedVehicle>>
    /\ UNCHANGED <<sharedFilters, workers, delivered, priorSession>>

\* idbClear resolves: the rest of handleClearSession, or the finally of loadData
IdbClearDone ==
    /\ idbQueue # <<>> /\ Head(idbQueue).op = "clear"
    /\ idbQueue' = Tail(idbQueue)
    /\ idb' = NULL
    /\ IF Head(idbQueue).by = "reset"
       THEN /\ excelData' = NULL
            /\ fileName' = NoFile
            /\ uploadTimestamp' = NULL
            /\ error' = "null"
            /\ warnings' = <<>>
            /\ activeView' = "Dashboard"
            /\ UnmountView
            /\ UNCHANGED <<isLoading, loadState>>
       ELSE /\ isLoading' = FALSE
            /\ loadState' = "done"
            /\ UNCHANGED <<excelData, fileName, uploadTimestamp, error, warnings>>
            /\ UNCHANGED <<activeView, filters, texts, effectsPending, sharedSeen, sortConfig, selectedVehicle>>
    /\ UNCHANGED <<sharedFilters, workers, delivered, priorSession>>

\* idbClear rejects: handleClearSession stops at the await; the finally of
\* loadData still runs
IdbClearFails ==
    /\ idbQueue # <<>> /\ Head(idbQueue).op = "clear"
    /\ idbQueue' = Tail(idbQueue)
    /\ IF Head(idbQueue).by = "reset"
       THEN UNCHANGED <<isLoading, loadState>>
       ELSE isLoading' = FALSE /\ loadState' = "done"
    /\ UNCHANGED <<excelData, fileName, uploadTimestamp, error, warnings, workers,
                   delivered, idb, priorSession>>
    /\ UNCHANGED viewVars

SidebarViews == DataSheets \cup {"Dashboard", "Summary"}

\* NavItem onClick: fileLoaded && setActiveView(label)
NavItem(view) ==
    /\ fileLoaded /\ ~effectsPending
    /\ view # activeView
    /\ activeView' = view
    /\ MountView(view)
    /\ UNCHANGED <<excelData, sharedFilters>>
    /\ UNCHANGED appVars

\* the month buttons of the Dashboard toggle the shared month
DB_clickMonth(month) ==
    /\ fileLoaded /\ activeView = "Dashboard" /\ ~effectsPending
    /\ sharedFilters' = [sharedFilters EXCEPT
                            !.month = IF sharedFilters.month = month THEN sAll ELSE month]
    /\ effectsPending' = TRUE
    /\ UNCHANGED <<excelData, activeView, filters, texts, sharedSeen, sortConfig, selectedVehicle>>
    /\ UNCHANGED appVars

\* the year buttons of the Dashboard toggle the shared year
DB_clickYear(year) ==
    /\ fileLoaded /\ activeView = "Dashboard" /\ ~effectsPending
    /\ sharedFilters' = [sharedFilters EXCEPT
                            !.year = IF sharedFilters.year = year THEN sAll ELSE year]
    /\ effectsPending' = TRUE
    /\ UNCHANGED <<excelData, activeView, filters, texts, sharedSeen, sortConfig, selectedVehicle>>
    /\ UNCHANGED appVars

\* the business-unit dropdown of the Dashboard offers dynamicBusinessUnits
DB_selectBusinessUnit(value) ==
    /\ fileLoaded /\ activeView = "Dashboard" /\ ~effectsPending
    /\ ListIncludes(dynamicBusinessUnits(excelData, sharedFilters), value)
    /\ sharedFilters' = [sharedFilters EXCEPT !.businessUnit = value]
    /\ effectsPending' = TRUE
    /\ UNCHANGED <<excelData, activeView, filters, texts, sharedSeen, sortConfig, selectedVehicle>>
    /\ UNCHANGED appVars

\* the Dashboard's effect: a business unit that left the list is reset
DB_RunEffects ==
    /\ effectsPending /\ activeView = "Dashboard"
    /\ sharedFilters' =
          IF /\ sharedFilters.businessUnit # sAll
             /\ ~ListIncludes(dynamicBusinessUnits(excelData, sharedFilters),
                              sharedFilters.businessUnit)
          THEN [sharedFilters EXCEPT !.businessUnit = sAll]
          ELSE sharedFilters
    /\ effectsPending' = (sharedFilters' # sharedFilters)
    /\ UNCHANGED <<excelData, activeView, filters, texts, sharedSeen, sortConfig, selectedVehicle>>
    /\ UNCHANGED appVars

\* the user reloads the idle page: the in-memory state starts over and the
\* object store is what it was
Reload ==
    /\ ~isLoading /\ ~effectsPending
    /\ idbQueue = <<>> /\ loadState = "done"
    /\ excelData' = NULL
    /\ activeView' = "Dashboard"
    /\ sharedFilters' = [month |-> sAll, year |-> sAll, businessUnit |-> sAll,
                         internalType |-> "All", designation |-> sAll]
    /\ UnmountView
    /\ fileName' = NoFile
    /\ uploadTimestamp' = NULL
    /\ isLoading' = TRUE
    /\ error' = "null"
    /\ warnings' = <<>>
    /\ workers' = NoWorkers
    /\ delivered' = NoneDelivered
    /\ loadState' = "mounted"
    /\ priorSession' = NULL
    /\ UNCHANGED <<idb, idbQueue>>

WorkerRuns(u) == WorkerPosts(u) \/ WorkerCrashes(u)

WorkerHandled(u) == OnMessageSuccess(u) \/ OnMessageError(u) \/ OnError(u)

IdbCompletes ==
    \/ IdbGetDone \/ IdbGetFails
    \/ \E u \in 1..MaxUploads : IdbSetDone(u) \/ IdbSetFails(u)
    \/ IdbClearDone \/ IdbClearFails

AppNext ==
    \/ loadData
    \/ \E file \in Files : handleFileUpload(file)
    \/ \E u \in 1..MaxUploads : WorkerPosts(u)
    \/ \E u \in 1..MaxUploads : WorkerCrashes(u)
    \/ \E u \in 1..MaxUploads : OnMessageSuccess(u)
    \/ \E u \in 1..MaxUploads : OnMessageError(u)
    \/ \E u \in 1..MaxUploads : OnError(u)
    \/ IdbGetDone
    \/ IdbGetFails
    \/ \E u \in 1..MaxUploads : IdbSetDone(u)
    \/ \E u \in 1..MaxUploads : IdbSetFails(u)
    \/ handleClearSession
    \/ IdbClearDone
    \/ IdbClearFails
    \/ \E view \in SidebarViews : NavItem(view)
    \/ RunEffects
    \/ \E month \in ClickMonths : DB_clickMonth(month)
    \/ \E value \in {sBeta} : DB_selectBusinessUnit(value)
    \/ DB_RunEffects
    \/ Reload

AppSpec == AppInit /\ [][AppNext]_vars

\* the browser runs a started worker, dispatches the events queued for the
\* page and completes every IndexedDB request
FairAppSpec ==
    /\ AppSpec
    /\ WF_vars(loadData)
    /\ \A u \in 1..MaxUploads : WF_vars(WorkerRuns(u)) /\ WF_vars(WorkerHandled(u))
    /\ WF_vars(IdbCompletes)

(***************************************************************************)
(* Properties of the cascading filters                                     *)
(***************************************************************************)
\* the effective value of the dimension behind a filter key in a row
EffectiveValue(view, key, item) ==
    CASE view = "Driver & Operator" /\ key = "BusinessUnits" -> getBusinessUnit(item)
      [] view = "Driver & Operator" /\ key = "Designation" -> getDesignation(item)
      [] key \in {"BusinessUnits", "BusinessUnit"} -> Get(item, "Business Units")
      [] key = "Supplier" -> Get(item, "Supplier Name")
      [] OTHER -> Get(item, key)

\* the rows that match every active dimension other than the one behind `key`
RowsMatchingOthers(view, wb, f, t, key) ==
    Range(FilteredData(view, wb, [f EXCEPT ![key] = sAll], t,
                       [internalType |-> "All"]))

\* the distinct non-empty effective values of a dimension over those rows
ExpectedValues(view, wb, f, t, key) ==
    {ToStr(EffectiveValue(view, key, item)) :
        item \in {i \in RowsMatchingOthers(view, wb, f, t, key) :
                    Truthy(EffectiveValue(view, key, i))}}

Stale(view, wb, f, t, key) ==
    f[key] # sAll /\ f[key] \notin ExpectedValues(view, wb, f, t, key)

DropdownKeys == DropdownKeysOf(activeView)

ShownOptions(key) == Options(activeView, excelData, filters, texts, key)

OptionsUnder(key, value) ==
    Options(activeView, excelData, [filters EXCEPT ![key] = value], texts, key)

Without(list, values) == FilterSeq(list, Range(list) \ values)

\* C1 as stated: the option list of a dimension is the same whatever the
\* dimension's own selection is, every other filter being fixed.
C1_OwnSelectionNeverChangesList ==
    activeView \in DetailViews =>
        \A key \in DropdownKeys : \A value \in SelectionsOf(key) :
            OptionsUnder(key, value) = ShownOptions(key)

\* C1 amended: two option lists of a dimension computed from filter states
\* that differ only in the dimension's own selection agree on every value
\* other than the two selections themselves (a list may carry the current
\* selection appended, and nothing else depends on the own selection).
C1_OwnSelectionOnlyAppended ==
    activeView \in DetailViews =>
        \A key \in DropdownKeys : \A value \in SelectionsOf(key) :
            Without(OptionsUnder(key, value), {value, filters[key]})
                = Without(ShownOptions(key), {value, filters[key]})

\* a business unit is selected in the Job Card view and its list still offers
\* the other business unit as well
C1_Witness ==
    /\ activeView = "Job Card"
    /\ ~effectsPending
    /\ filters.BusinessUnits = sAlpha
    /\ ShownOptions("BusinessUnits") = <<sAll, sAlpha, sBeta>>

\* C2: a view never settles with a single-select dimension still holding a
\* value that no row matching the other active dimensions has.
C2_NoSettledStaleSelection ==
    (activeView \in DetailViews /\ ~effectsPending) =>
        \A key \in DropdownKeys : ~Stale(activeView, excelData, filters, texts, key)

\* C3: once the External Fleets view has settled, every selected type of
\* service occurs in the typesOfService option list.
C3_SelectedServicesAreOffered ==
    (activeView = "External Fleets" /\ ~effectsPending) =>
        filters.TypeOfService \subseteq
            Range(DV_typesOfService(excelData[activeView], filters, texts))

\* the values a Summary report's dropdown should offer: those of the rows
\* matching the report's month and year
SM_expectedValues(wb, f) ==
    LET d == SM_dropdown(wb, f)
    IN  {ToStr(SM_value(d, item)) :
            item \in {i \in Range(SM_filtered(wb, [f EXCEPT ![SM_selectedKey(f)] = sAll])) :
                        Truthy(SM_value(d, i))}}

\* C4: every option list is "All" followed by exactly the distinct non-empty
\* values of its dimension over the rows matching every other active dimension
\* (the dimension's own selection, which a view may append, is left aside).
C4_OptionsFromOtherDimensions ==
    /\ activeView \in DetailViews =>
          \A key \in DropdownKeys :
             /\ Head(ShownOptions(key)) = sAll
             /\ Range(Tail(ShownOptions(key))) \ {filters[key]}
                  = ExpectedValues(activeView, excelData, filters, texts, key) \ {filters[key]}
    /\ (activeView = "Summary" /\ filters.activeReportKey \in ReportKeys) =>
          /\ Head(SM_dropdown(excelData, filters).options) = sAll
          /\ Range(Tail(SM_dropdown(excelData, filters).options))
                  = SM_expectedValues(excelData, filters)

Ascending(list) ==
    \/ \A i \in 1..(Len(list) - 1) : CodeUnitLess(list[i], list[i + 1])
    \/ \A i \in 1..(Len(list) - 1) : LocaleLess(list[i], list[i + 1])

\* C5: every option list starts with "All", continues with distinct values in
\* ascending order, and contains the dimension's current selection.
C5_SortedWithSelection ==
    activeView \in DetailViews =>
        \A key \in DropdownKeys :
            /\ Head(ShownOptions(key)) = sAll
            /\ Ascending(Tail(ShownOptions(key)))
            /\ ListIncludes(ShownOptions(key), filters[key])

AllFiltersOff ==
    /\ filters.Month = sAll /\ filters.Year = sAll
    /\ \A key \in DropdownKeys : filters[key] = sAll
    /\ activeView = "External Fleets" => filters.TypeOfService = {}
    /\ \A box \in DOMAIN texts : texts[box] = sNone

ShownRows == FilteredData(activeView, excelData, filters, texts, sharedFilters)

\* C6 as stated: with every dimension of the view at "All" the filtered
\* subset is the sheet's row collection.
C6_AllShowsEveryRow ==
    (activeView \in DetailViews /\ AllFiltersOff) => ShownRows = excelData[activeView]

\* C6 amended: with every dimension of the view at "All", and in the Internal
\* Fleets view the type carried over from the Dashboard at "All" too, the
\* filtered subset is the sheet's row collection in the same order.
C6_AllShowsEveryRowUnlessTyped ==
    (/\ activeView \in DetailViews /\ AllFiltersOff
     /\ activeView = "Internal Fleets" => sharedFilters.internalType = "All")
        => ShownRows = excelData[activeView]

\* the Internal Fleets view was opened with business unit Beta pushed down, has
\* settled with every filter at "All" and shows two different rows
C6_Witness ==
    /\ activeView = "Internal Fleets" /\ sharedFilters.internalType = "All"
    /\ sharedFilters.businessUnit = sBeta
    /\ ~effectsPending /\ AllFiltersOff
    /\ Len(excelData[activeView]) = 2
    /\ excelData[activeView][1] # excelData[activeView][2]

(***************************************************************************)
(* Properties of the session machine                                       *)
(***************************************************************************)
InFlight(u) == workers[u].state \in {"parsing", "posted", "crashed"}

\* C7: from the choice of a file until a success payload arrives the in-memory
\* session is the session held before the upload, and it still is after the
\* worker reported an error or crashed.
C7_SessionKeptUntilSuccess ==
    \A u \in 1..MaxUploads :
        /\ InFlight(u) => InMemorySession = priorSession
        /\ (workers[u].result = "failed" /\ NextUpload = u + 1 /\ idbQueue = <<>>)
              => InMemorySession = priorSession

OutcomeCounted(u) ==
    /\ delivered[u] <= 1
    /\ workers[u].state \in {"none", "parsing", "posted", "crashed"} => delivered[u] = 0
    /\ workers[u].state \in {"awaitSave", "terminated"} => delivered[u] = 1
    /\ workers[u].state = "posted" => workers[u].msg.type \in {"success", "error"}
    /\ workers[u].state = "terminated" => workers[u].result \in {"saved", "saveFailed", "failed"}

NothingPending ==
    /\ loadState = "done"
    /\ \A u \in 1..MaxUploads : workers[u].state \in {"none", "terminated"}

\* C8: every upload's worker posts one outcome, the page applies exactly one
\* outcome per upload, the worker ends terminated, and isLoading goes back to
\* false: it is false whenever no load, parse or save is pending.
C8_OneOutcomeThenIdle ==
    /\ [](\A u \in 1..MaxUploads : OutcomeCounted(u))
    /\ [](NothingPending => ~isLoading)
    /\ \A u \in 1..MaxUploads :
          (workers[u].state = "parsing") ~> (workers[u].state = "terminated" /\ delivered[u] = 1)
    /\ isLoading ~> ~isLoading

\* two uploads were handled: the first was parsed and saved, the second failed
C8_Witness ==
    /\ workers[1].state = "terminated" /\ workers[1].result = "saved"
    /\ workers[2].state = "terminated" /\ workers[2].result = "failed"
    /\ delivered[1] = 1 /\ delivered[2] = 1
    /\ ~isLoading

\* C9: a parse in flight can be abandoned, that is, while a worker is parsing
\* the page offers Reset (rendered when a file is loaded) or a newer upload
\* (the input is enabled when isLoading is false).
C9_ParseCanBeAbandoned ==
    \A u \in 1..MaxUploads : InFlight(u) => (fileLoaded \/ ~isLoading)

SaveFailed(u) == workers[u].state = "awaitSave" /\ workers'[u].result = "saveFailed"

\* C10: the step in which the save of a parsed upload is found to have failed
\* leaves rows, warnings, upload timestamp and view as they are, sets the
\* message about storage, and puts isLoading to false.
C10_SaveFailureIsNotFatal ==
    [][(\E u \in 1..MaxUploads : SaveFailed(u)) =>
          /\ excelData' = excelData
          /\ warnings' = warnings
          /\ uploadTimestamp' = uploadTimestamp
          /\ fileName' = fileName
          /\ activeView' = activeView
          /\ error' = SaveFailedMessage
          /\ isLoading' = FALSE]_vars

\* the save of the first upload failed: its rows are shown on the Dashboard
\* with the storage message and the spinner is off
C10_Witness ==
    /\ workers[1].result = "saveFailed"
    /\ NextUpload = 2
    /\ excelData = WorkerOutcome(PartialFile).data
    /\ warnings # <<>>
    /\ uploadTimestamp = Stamp(1)
    /\ activeView = "Dashboard"
    /\ error = SaveFailedMessage
    /\ ~isLoading

(***************************************************************************)
(* Persistence across a reload                                             *)
(***************************************************************************)
AllShared == [month |-> sAll, year |-> sAll, businessUnit |-> sAll,
              internalType |-> "All", designation |-> sAll]

\* upload u is the latest one, its save has completed, nothing is pending and
\* the session has not been reset since
SavedAndSettled(u) ==
    /\ workers[u].state = "terminated" /\ workers[u].result = "saved"
    /\ NextUpload = u + 1
    /\ idbQueue = <<>> /\ fileLoaded

LoadCompletes == loadState = "reading" /\ loadState' = "done"

\* the step in which a Reset clears the session in memory
ResetCompletes ==
    /\ idbQueue # <<>> /\ Head(idbQueue).by = "reset" /\ idbQueue' = Tail(idbQueue)
    /\ fileLoaded \/ fileName # NoFile
    /\ excelData' = NULL /\ fileName' = NoFile

\* C11: once the save of the latest upload has completed the object store
\* holds the rows in memory, the uploaded file's name and the upload timestamp
\* in its stored form; a reload leaves the store as it is; the load after a
\* reload adopts exactly the stored rows, name and timestamp on the Dashboard
\* with every shared filter at "All" and no view state, and adopts nothing
\* from an empty store; a completed Reset leaves the store empty.
C11_SessionRoundTrip ==
    /\ [](\A u \in 1..MaxUploads : SavedAndSettled(u) =>
              /\ idb # NULL
              /\ idb.excelData = excelData
              /\ idb.fileName = workers[u].file.name
              /\ FromISOString(idb.uploadTimestamp) = uploadTimestamp)
    /\ [][/\ (loadState = "done" /\ loadState' = "mounted") => idb' = idb
          /\ (LoadCompletes /\ idb # NULL) =>
                /\ excelData' = idb.excelData
                /\ fileName' = idb.fileName
                /\ uploadTimestamp' = FromISOString(idb.uploadTimestamp)
                /\ activeView' = "Dashboard"
                /\ sharedFilters' = AllShared
                /\ filters' = Unmounted /\ texts' = <<>>
          /\ (LoadCompletes /\ idb = NULL) => excelData' = NULL /\ fileName' = NoFile
          /\ ResetCompletes => idb' = NULL]_vars

\* the page was reloaded after the partial workbook had been uploaded and
\* saved, and the load has restored that session
C11_Witness ==
    /\ workers = NoWorkers /\ loadState = "done"
    /\ idb = Session(WorkerOutcome(PartialFile).data, PartialFile.name, Stamp(1))
    /\ excelData = WorkerOutcome(PartialFile).data
    /\ fileName = PartialFile.name
    /\ uploadTimestamp = Stamp(1)
    /\ activeView = "Dashboard" /\ sharedFilters = AllShared

(***************************************************************************)
(* The push-down of the shared filter, as a function of the view's state   *)
(***************************************************************************)
\* the dropdown key of a view that the shared business unit is written to
BusinessUnitKey(view) == IF view = "External Fleets" THEN "BusinessUnit" ELSE "BusinessUnits"

\* the keys of a view's FilterState that hold view-local dimensions
LocalKeys(view) == DOMAIN InitialFilters(view, AllShared) \ {"Month", "Year", BusinessUnitKey(view)}

\* the FilterStates a user can bring a view to
FilterStates(view) ==
    CASE view = "Driver & Operator" ->
            {[Month |-> m, Year |-> y, BusinessUnits |-> bu, Designation |-> d] :
                m \in {sAll, sJAN}, y \in {sAll, s2024}, bu \in {sAll, sBeta},
                d \in {sAll, sOPERATOR}}
      [] view = "Job Card" ->
            {[Month |-> m, Year |-> y, BusinessUnits |-> bu, Cluster |-> c] :
                m \in {sAll, sJAN}, y \in {sAll, s2024}, bu \in {sAll, sBeta},
                c \in {sAll, sNorth}}
      [] view = "Internal Fleets" ->
            {[Month |-> m, Year |-> y, BusinessUnits |-> bu, Fleet_Category |-> c] :
                m \in {sAll, sJAN}, y \in {sAll, s2024}, bu \in {sAll, sBeta},
                c \in {sAll, sHired}}
      [] view = "External Fleets" ->
            {[Month |-> m, Year |-> y, BusinessUnit |-> bu, Supplier |-> c,
              TypeOfService |-> ts] :
                m \in {sAll, sJAN}, y \in {sAll, s2024}, bu \in {sAll, sBeta},
                c \in {sAll, sZed}, ts \in {{}, {sFuel}}}
      [] OTHER ->
            {[Month |-> m, Year |-> y, BusinessUnits |-> bu] :
                m \in {sAll, sJAN}, y \in {sAll, s2024}, bu \in {sAll, sBeta}}

\* the search texts a user can have typed in a view
TextStates(view) == [DOMAIN InitialTexts(view) -> SearchTexts]

\* the shared filters the Dashboard can hand to a view
SharedStates ==
    {[month |-> m, year |-> y, businessUnit |-> bu, internalType |-> "All", designation |-> dg] :
        m \in {sAll, sFEB}, y \in {sAll, s2024}, bu \in {sAll, sAlpha},
        dg \in {sAll, sLIGHT_DRIVER}}

PushInit ==
    \E view \in DetailViews :
      \E f \in FilterStates(view), t \in TextStates(view), shared \in SharedStates :
        /\ excelData = Workbook("Dashboard", <<>>)
        /\ activeView = view
        /\ sharedFilters = shared
        /\ filters = f
        /\ texts = t
        /\ effectsPending = TRUE
        /\ sharedSeen = Unmounted
        /\ fileName = LoadedFile
        /\ uploadTimestamp = Stamp(1)
        /\ isLoading = FALSE
        /\ error = "null"
        /\ warnings = <<>>
        /\ workers = NoWorkers
        /\ delivered = NoneDelivered
        /\ idb = NULL
        /\ idbQueue = <<>>
        /\ loadState = "done"
        /\ priorSession = NULL
        /\ sortConfig = NoSort
        /\ selectedVehicle = NULL

\* the push-down effect runs: its updater is applied to the view's filters
PushDownEffect ==
    /\ sharedSeen # sharedFilters
    /\ filters' = PushDown(activeView, sharedFilters, filters)
    /\ sharedSeen' = sharedFilters
    /\ effectsPending' = FALSE
    /\ UNCHANGED <<excelData, activeView, sharedFilters, texts, sortConfig, selectedVehicle>>
    /\ UNCHANGED appVars

PushSpec == PushInit /\ [][PushDownEffect]_vars

\* the push-down wrote the shared month, year and business unit
SharedWritten ==
    /\ filters'.Month = sharedFilters.month
    /\ filters'.Year = sharedFilters.year
    /\ filters'[BusinessUnitKey(activeView)] = sharedFilters.businessUnit

sJanuary == <<"J","a","n","u","a","r","y">>
sFebruary == <<"F","e","b","r","u","a","r","y">>
sBlank == <<" "," ">>

DriverOperatorLedger ==
    { [Month |-> Str(sJAN), Year |-> Str(s2024), Revenue |-> Num(100), Expense |-> Num(40)],
      [Month |-> Str(sFEB), Year |-> Str(s2024), Revenue |-> Num(50), Expense |-> Num(10)],
      [Month |-> Str(sJanuary), Year |-> Num(2024), REVENUE |-> Num(7), Revenue |-> Num(9),
       Profit |-> Num(2)]
        @@ ("End Date" :> DateV(2025, 1, 15)) @@ ("BUSINESS UNITS" :> Str(sAlpha)),
      [Revenue |-> Num(5)] @@ ("Business Units" :> Str(sAlpha)),
      [Year |-> Num(2024), Revenue |-> Num(3)] }

JobCardLedger ==
    { [Month |-> Str(sJAN), Year |-> Num(2024), Profit |-> Num(30), Expense |-> Num(99)]
        @@ ("Total amount with Service Charge" :> Num(80)) @@ ("Business Units" :> Str(sAlpha)),
      [Month |-> Str(sFebruary), Year |-> Str(s2024), Profit |-> Num(5)]
        @@ ("TOTAL AMOUNT WITH SERVICE CHARGE" :> Num(20)) @@ ("Business Units" :> Str(sBeta)),
      [Year |-> Num(2024), Profit |-> Num(1)] @@ ("Total amount with Service Charge" :> Num(4)),
      [Month |-> Str(sJAN), Year |-> Num(2024), Expense |-> Num(7)]
        @@ ("BUSINESS UNITS" :> Str(sAlpha)) }

FleetManagementLedger ==
    { [Month |-> DateV(2024, 0, 15)] @@ ("Business Units" :> Str(sAlpha)) @@ ("Splited Amount" :> Num(30)),
      [Month |-> DateV(2024, 0, 15)] @@ ("Business Units" :> Str(sBeta)) @@ ("Splited Amount" :> Num(10)),
      [Month |-> DateV(2024, 1, 15)] @@ ("Business Units" :> Str(sAlpha)) @@ ("Splited Amount" :> Num(20)),
      [Month |-> InvalidDate] @@ ("Business Units" :> Str(sAlpha)) @@ ("Splited Amount" :> Num(4)),
      [Month |-> DateV(2024, 0, 15)] @@ ("BUSINESS UNITS" :> Str(sAlpha)) @@ ("Splited Amount" :> Num(6)) }

ExternalFleetLedger ==
    { [Month |-> Str(sJAN), Year |-> Num(2024), REVENUE |-> Num(10), COST |-> Num(4), PROFIT |-> Num(6)]
        @@ ("Business Units" :> Str(sAlpha)) @@ ("Invoice Number:" :> Str(sA1)),
      [Month |-> Str(sJAN), Year |-> Num(2024), Revenue |-> Num(5), Cost |-> Num(1)]
        @@ ("Business Units" :> Str(sAlpha)) @@ ("Invoice Number:" :> Str(sA1)),
      [Month |-> Str(sJAN), Year |-> Num(2024), Revenue |-> Num(2)]
        @@ ("Business Units" :> Str(sAlpha)),
      [Month |-> Str(sJanuary), Year |-> Str(s2024), Revenue |-> Num(1)]
        @@ ("Invoice Number:" :> Str(sBlank)),
      [Revenue |-> Num(3)] @@ ("Invoice Number:" :> Num(7)) }

InternalFleetLedger ==
    { [MONTH |-> Str(sJAN), YEAR |-> Num(2024)]
        @@ ("Business Units" :> Str(sAlpha)) @@ ("Reg No:" :> Str(sA1)) @@ ("R-Revenue" :> Num(5)),
      [MONTH |-> Str(sFebruary), YEAR |-> Str(s2024)] @@ ("F-Revenue" :> Num(3)),
      [YEAR |-> Num(2024)] @@ ("R-Revenue" :> Num(2)),
      [MONTH |-> Str(sJAN), YEAR |-> Num(2024), DATE |-> DateV(2025, 1, 15)]
        @@ ("R-Revenue" :> Num(1)) }

Ledger(sheet) ==
    CASE sheet = "Driver & Operator" -> DriverOperatorLedger
      [] sheet = "Job Card" -> JobCardLedger
      [] sheet = "Internal Fleets" -> InternalFleetLedger
      [] sheet = "External Fleets" -> ExternalFleetLedger
      [] OTHER -> FleetManagementLedger

\* the Dashboard is shown over a stored workbook, its filters all "All"
DashInit ==
    \E sheet \in DataSheets :
      \E rows \in RowSeqs(Ledger(sheet), MaxRows) :
        /\ excelData = Workbook(sheet, rows)
        /\ activeView = "Dashboard"
        /\ sharedFilters = AllShared
        /\ filters = Unmounted
        /\ texts = <<>>
        /\ effectsPending = FALSE
        /\ sharedSeen = Unmounted
        /\ fileName = LoadedFile
        /\ uploadTimestamp = Stamp(1)
        /\ isLoading = FALSE
        /\ error = "null"
        /\ warnings = <<>>
        /\ workers = NoWorkers
        /\ delivered = NoneDelivered
        /\ idb = Session(Workbook(sheet, rows), LoadedFile, Stamp(1))
        /\ idbQueue = <<>>
        /\ loadState = "done"
        /\ priorSession = NULL
        /\ sortConfig = NoSort
        /\ selectedVehicle = NULL

\* the cards of the Dashboard and the view each opens on a double click
cardMappings ==
    { [view |-> "Driver & Operator", type |-> "All"],
      [view |-> "External Fleets", type |-> "All"],
      [view |-> "Internal Fleets", type |-> "Rental"],
      [view |-> "Internal Fleets", type |-> "Fuel"],
      [view |-> "Job Card", type |-> "All"],
      [view |-> "Fleet Management", type |-> "All"] }

handleDoubleClick(mapping) ==
    /\ fileLoaded /\ activeView = "Dashboard" /\ ~effectsPending
    /\ sharedFilters' = [sharedFilters EXCEPT !.internalType = mapping.type,
                                              !.designation = sAll]
    /\ activeView' = mapping.view
    /\ filters' = InitialFilters(mapping.view, sharedFilters')
    /\ texts' = InitialTexts(mapping.view)
    /\ effectsPending' = TRUE
    /\ sharedSeen' = Unmounted
    /\ sortConfig' = NoSort
    /\ selectedVehicle' = NULL
    /\ UNCHANGED excelData
    /\ UNCHANGED appVars

DashNext ==
    \/ \E month \in ClickMonths : DB_clickMonth(month)
    \/ \E year \in ClickYears : DB_clickYear(year)
    \/ \E value \in {sAlpha, sBeta} : DB_selectBusinessUnit(value)
    \/ DB_RunEffects
    \/ \E mapping \in cardMappings : handleDoubleClick(mapping)
    \/ RunEffects
    \/ \E view \in {"Dashboard", "Internal Fleets"} : NavItem(view)

DashSpec == DashInit /\ [][DashNext]_vars

(***************************************************************************)
(* Dates: how a row is resolved on the Dashboard and in the views          *)
(***************************************************************************)
\* the (month, year) the Dashboard resolves a row to, Null when it cannot
ResolvedOnDashboard(item) ==
    LET itemDate == getItemDate(item)
    IN  IF itemDate.k = "date"
        THEN [month |-> MONTH_NAMES[itemDate.m + 1], year |-> NatToString(itemDate.y)]
        ELSE Null

\* the (month, year) the Driver & Operator view resolves a row to, Null when
\* either half is missing
ResolvedInDriverOperatorView(item) ==
    IF Truthy(DO_itemMonthName(item)) /\ Truthy(DO_itemYear(item))
    THEN [month |-> DO_itemMonthName(item).s, year |-> DO_itemYear(item).s]
    ELSE Null

\* the row carries month text, a year and a valid alternate date (End Date)
HasTextAndAlternateDate(item) ==
    /\ Get(item, "Month").k = "string" /\ Truthy(Get(item, "Month"))
    /\ Truthy(Get(item, "Year"))
    /\ IsValidDate(Get(item, "End Date"))

\* C13: a Driver & Operator row resolves to one (month, year): a row with
\* month text, a year and a valid alternate date resolves from the text on
\* the Dashboard too, every row that both the Dashboard and the view resolve
\* resolves to the same pair, and so a specific month and year chosen on the
\* Dashboard keep the same such rows on the Dashboard and in the view.
C13_OneResolutionOrder ==
    \A item \in Range(excelData["Driver & Operator"]) :
        LET onDashboard == ResolvedOnDashboard(item)
            inView == ResolvedInDriverOperatorView(item)
        IN  /\ HasTextAndAlternateDate(item) =>
                /\ onDashboard # Null
                /\ onDashboard.month = Substring0(ToUpperCase(Get(item, "Month").s), 3)
                /\ onDashboard.year = ToStr(Get(item, "Year"))
            /\ (onDashboard # Null /\ inView # Null) =>
                /\ onDashboard = inView
                /\ (activeView = "Dashboard" /\ sharedFilters.month # sAll
                        /\ sharedFilters.year # sAll) =>
                      (filterByDate(item, sharedFilters)
                          <=> /\ DO_monthMatch(item, DO_initialFilters(sharedFilters))
                              /\ DO_yearMatch(item, DO_initialFilters(sharedFilters)))

\* the date of a row of a sheet cannot be resolved: the Dashboard finds no
\* date for it (for a job card: its month text or its year is empty)
Unresolved(sheet, item) ==
    IF sheet = "Job Card"
    THEN JC_itemMonthName(item) = sNone \/ JC_itemYear(item) = sNone
    ELSE ResolvedOnDashboard(item) = Null

\* the rows a Dashboard card aggregates, per sheet
CardRows(sheet) == DB_filtered(excelData, sharedFilters, sheet)

\* the rows the mounted detail view shows
ViewRows == FilteredData(activeView, excelData, filters, texts, sharedFilters)

\* the mounted view filters by month and year only
OnlyDateFilters ==
    /\ \A k \in DOMAIN filters \ {"Month", "Year"} :
          IF k = "TypeOfService" THEN filters[k] = {} ELSE filters[k] = sAll
    /\ \A b \in DOMAIN texts : texts[b] = sNone
    /\ sharedFilters.internalType = "All"

\* C14: a row whose date cannot be resolved is kept and counted when month and
\* year are both "All" and is left out as soon as a specific month or a
\* specific year is selected, on the Dashboard and in the detail views.
C14_UnresolvedOnlyUnderAll ==
    /\ activeView = "Dashboard" =>
          \A sheet \in DataSheets : \A item \in Range(excelData[sheet]) :
              Unresolved(sheet, item) =>
                  /\ (sharedFilters.month # sAll \/ sharedFilters.year # sAll)
                        => item \notin Range(CardRows(sheet))
                  /\ (sharedFilters.month = sAll /\ sharedFilters.year = sAll
                        /\ sharedFilters.businessUnit = sAll)
                        => item \in Range(CardRows(sheet))
    /\ activeView \in DetailViews =>
          \A item \in Range(excelData[activeView]) :
              Unresolved(activeView, item) =>
                  /\ (filters.Month # sAll \/ filters.Year # sAll)
                        => item \notin Range(ViewRows)
                  /\ (filters.Month = sAll /\ filters.Year = sAll /\ OnlyDateFilters)
                        => item \in Range(ViewRows)

\* the sheets whose rows carry month text and a year, and those two cells
TextDatedSheets == {"Driver & Operator", "Job Card", "Internal Fleets", "External Fleets"}

MonthCell(sheet, item) ==
    IF sheet = "Internal Fleets" THEN Get(item, "MONTH") ELSE Get(item, "Month")

YearCell(sheet, item) ==
    IF sheet = "Internal Fleets" THEN Get(item, "YEAR") ELSE Get(item, "Year")

HasMonthTextAndYear(sheet, item) ==
    /\ MonthCell(sheet, item).k = "string" /\ Truthy(MonthCell(sheet, item))
    /\ Truthy(YearCell(sheet, item))

HasDateColumn(item) ==
    \E c \in {"End Date", "Month", "DATE", "Date:"} : IsValidDate(Get(item, c))

\* the row's month, cut to three upper-case letters, and its year as a string
\* are the selected month and year (or the selection is "All")
PrefixAndStringMatch(sheet, item, month, year) ==
    /\ month = sAll \/ Substring0(ToUpperCase(MonthCell(sheet, item).s), 3) = month
    /\ year = sAll \/ ToStr(YearCell(sheet, item)) = year

\* C15: with the other filters off, a row with month text and a year is kept
\* exactly when the first three letters of its month, upper-cased, are the
\* selected month and the string form of its year is the selected year, in
\* every detail view and on the Dashboard.
C15_MonthPrefixYearString ==
    /\ (activeView \in TextDatedSheets /\ OnlyDateFilters) =>
          \A item \in Range(excelData[activeView]) :
              HasMonthTextAndYear(activeView, item) =>
                  (item \in Range(ViewRows)
                      <=> PrefixAndStringMatch(activeView, item, filters.Month, filters.Year))
    /\ (activeView = "Dashboard" /\ sharedFilters.businessUnit = sAll) =>
          \A sheet \in TextDatedSheets : \A item \in Range(excelData[sheet]) :
              (HasMonthTextAndYear(sheet, item) /\ ~HasDateColumn(item)) =>
                  (item \in Range(CardRows(sheet))
                      <=> PrefixAndStringMatch(sheet, item, sharedFilters.month,
                                               sharedFilters.year))

(***************************************************************************)
(* Aggregates                                                              *)
(***************************************************************************)
\* a Driver & Operator row that carries Month, Year, Revenue and Expense
LedgerStyle(item) ==
    /\ Get(item, "Month").k = "string" /\ Truthy(Get(item, "Year"))
    /\ Get(item, "Revenue").k = "number" /\ Get(item, "Expense").k = "number"

\* the rows of a sheet of the given month and year, in sheet order
RowsOf(sheet, month, year) ==
    FilterSeq(excelData[sheet], {item \in Range(excelData[sheet]) :
        PrefixAndStringMatch(sheet, item, month, year)})

SumOfColumn(rows, c) == SumSeq([n \in 1..Len(rows) |-> NumberOf(Get(rows[n], c))])

\* C16: over Driver & Operator rows that carry Month, Year, Revenue and
\* Expense, a specific month and year keep exactly the rows of that month and
\* year, and the totals over them are totalRevenue = sum of Revenue and
\* totalProfit = totalRevenue - sum of Expense, in the view and on the
\* Dashboard's Driver & Operator cards.
C16_ProfitIsRevenueMinusExpense ==
    LET sheet == "Driver & Operator"
        rows == excelData[sheet]
    IN  (\A item \in Range(rows) : LedgerStyle(item)) =>
          /\ (activeView = sheet /\ OnlyDateFilters
                 /\ filters.Month # sAll /\ filters.Year # sAll) =>
                LET kept == RowsOf(sheet, filters.Month, filters.Year)
                IN  /\ ViewRows = kept
                    /\ DO_summaryData(ViewRows).totalRevenue = SumOfColumn(kept, "Revenue")
                    /\ DO_summaryData(ViewRows).totalProfit
                          = SumOfColumn(kept, "Revenue") - SumOfColumn(kept, "Expense")
          /\ (activeView = "Dashboard" /\ sharedFilters.businessUnit = sAll
                 /\ sharedFilters.month # sAll /\ sharedFilters.year # sAll) =>
                LET kept == RowsOf(sheet, sharedFilters.month, sharedFilters.year)
                IN  /\ CardRows(sheet) = kept
                    /\ revenueCards(excelData, sharedFilters).driverOperator
                          = SumOfColumn(kept, "Revenue")
                    /\ profitCards(excelData, sharedFilters).driverOperator
                          = SumOfColumn(kept, "Revenue") - SumOfColumn(kept, "Expense")

\* the amount of one job card: the first of its two amount columns that holds
\* a non-zero number
JobCardAmount(item) ==
    IF Truthy(Get(item, "Total amount with Service Charge"))
    THEN NumberOf(Get(item, "Total amount with Service Charge"))
    ELSE NumberOf(Get(item, "TOTAL AMOUNT WITH SERVICE CHARGE"))

\* C17: for every filter state of the Dashboard the job-card cost is the
\* job-card revenue minus the job-card profit, both summed over the filtered
\* job cards; the Expense column of a job card never enters it.
C17_JobCardCostIsRevenueMinusProfit ==
    activeView = "Dashboard" =>
        LET rows == CardRows("Job Card")
            revenue == SumSeq([n \in 1..Len(rows) |-> JobCardAmount(rows[n])])
            profit == SumOfColumn(rows, "Profit")
        IN  /\ revenueCards(excelData, sharedFilters).jobCard = revenue
            /\ profitCards(excelData, sharedFilters).jobCard = profit
            /\ costCards(excelData, sharedFilters).jobCard = revenue - profit

\* JAN is selected and the filtered job cards hold one with an Expense of 99,
\* an amount of 80 and a profit of 30: the cost card shows 50
C17_Witness ==
    /\ activeView = "Dashboard" /\ ~effectsPending
    /\ sharedFilters.month = sJAN
    /\ \E item \in Range(CardRows("Job Card")) : Get(item, "Expense") = Num(99)
    /\ Len(CardRows("Job Card")) = 1
    /\ costCards(excelData, sharedFilters).jobCard = 50

\* the Splited Amount total of the Fleet Management rows of a month (and of
\* the selected year, if one is selected), whatever their business unit
MonthTotal(month, year) ==
    LET all == excelData["Fleet Management"]
    IN  SumOfColumn(FilterSeq(all, {item \in Range(all) :
            /\ ResolvedOnDashboard(item) # Null
            /\ ResolvedOnDashboard(item).month = month
            /\ year = sAll \/ ResolvedOnDashboard(item).year = year}), "Splited Amount")

\* 100 x (total of the filtered rows) / (total of the month), or 0
ExpectedPercentage(filteredRows, month, year, businessUnit) ==
    IF month # sAll /\ businessUnit # sAll /\ MonthTotal(month, year) > 0
    THEN Percentage(SumOfColumn(filteredRows, "Splited Amount"), MonthTotal(month, year))
    ELSE ZeroPercentage

\* C18: the fleet-management percentage is 100 x (Splited Amount of the
\* filtered rows) / (Splited Amount of all rows of the selected month) when a
\* month and a business unit are selected and that total is positive, and 0
\* otherwise; the Fleet Management view opened with the Dashboard's filters
\* shows the Dashboard's value.
C18_FleetManagementPercentage ==
    /\ activeView = "Dashboard" =>
          SamePercentage(fleetManagementPercentage(excelData, sharedFilters),
                         ExpectedPercentage(CardRows("Fleet Management"), sharedFilters.month,
                                            sharedFilters.year, sharedFilters.businessUnit))
    /\ activeView = "Fleet Management" =>
          /\ SamePercentage(FM_summaryData(excelData[activeView], filters).percentage,
                            ExpectedPercentage(ViewRows, filters.Month, filters.Year,
                                               filters.BusinessUnits))
          /\ filters = FM_initialFilters(sharedFilters) =>
                SamePercentage(FM_summaryData(excelData[activeView], filters).percentage,
                               fleetManagementPercentage(excelData, sharedFilters))

\* the invoice numbers of a row collection that are neither null nor blank
InvoiceKeys(rows) ==
    {Get(item, "Invoice Number:") :
        item \in {r \in Range(rows) :
            LET v == Get(r, "Invoice Number:")
            IN  /\ v.k \notin {"undefined", "null"}
                /\ v.k = "string" => \E n \in 1..Len(v.s) : v.s[n] # " "}}

\* C19: the unique-invoice count over the filtered External Fleets rows is the
\* number of distinct invoice numbers that are neither null nor blank, in the
\* External Fleets view and on the Dashboard's External card.
C19_BlankInvoicesNotCounted ==
    /\ activeView = "External Fleets" =>
          DV_summaryData(ViewRows).uniqueInvoiceCount = Cardinality(InvoiceKeys(ViewRows))
    /\ activeView = "Dashboard" =>
          counts(excelData, sharedFilters).externalInvoice
              = Cardinality(InvoiceKeys(CardRows("External Fleets")))

\* the amount of a row for one field: its all-caps column when present,
\* otherwise its title-case column, otherwise 0
CapsFirst(item, upper, title) ==
    IF upper \in DOMAIN item /\ item[upper].k \notin {"undefined", "null"}
    THEN NumberOf(item[upper])
    ELSE IF title \in DOMAIN item /\ item[title].k \notin {"undefined", "null"}
    THEN NumberOf(item[title])
    ELSE 0

SumCapsFirstOf(rows, upper, title) ==
    SumSeq([n \in 1..Len(rows) |-> CapsFirst(rows[n], upper, title)])

\* C20: every revenue, cost/expense and profit total takes, row by row and
\* field by field, the all-caps column when present and the title-case column
\* otherwise, on the Dashboard cards and in the views' totals.
C20_CapsFirstEverywhere ==
    /\ activeView = "Dashboard" =>
          LET dO == CardRows("Driver & Operator")
              ext == CardRows("External Fleets")
          IN  /\ revenueCards(excelData, sharedFilters).driverOperator
                    = SumCapsFirstOf(dO, "REVENUE", "Revenue")
              /\ costCards(excelData, sharedFilters).driverOperator
                    = SumCapsFirstOf(dO, "EXPENSE", "Expense")
              /\ profitCards(excelData, sharedFilters).driverOperator
                    = SumCapsFirstOf(dO, "PROFIT", "Profit")
              /\ revenueCards(excelData, sharedFilters).external
                    = SumCapsFirstOf(ext, "REVENUE", "Revenue")
              /\ costCards(excelData, sharedFilters).external
                    = SumCapsFirstOf(ext, "COST", "Cost")
              /\ profitCards(excelData, sharedFilters).external
                    = SumCapsFirstOf(ext, "PROFIT", "Profit")
    /\ activeView = "External Fleets" =>
          /\ DV_summaryData(ViewRows).totalRevenue = SumCapsFirstOf(ViewRows, "REVENUE", "Revenue")
          /\ DV_summaryData(ViewRows).totalCost = SumCapsFirstOf(ViewRows, "COST", "Cost")
          /\ DV_summaryData(ViewRows).totalProfit = SumCapsFirstOf(ViewRows, "PROFIT", "Profit")
    /\ activeView = "Driver & Operator" =>
          /\ DO_summaryData(ViewRows).totalRevenue = SumCapsFirstOf(ViewRows, "REVENUE", "Revenue")
          /\ DO_summaryData(ViewRows).totalExpense = SumCapsFirstOf(ViewRows, "EXPENSE", "Expense")
          /\ DO_summaryData(ViewRows).totalProfit = SumCapsFirstOf(ViewRows, "PROFIT", "Profit")

(***************************************************************************)
(* The effective business unit and designation of a row                    *)
(***************************************************************************)
BusinessUnitAliases ==
    <<"BUSINESS UNITS", "Business Units", "BUSINESS UNIT", "Business Unit", "Client Company Name">>

DesignationAliases == <<"DESIGNATION", "Designation">>

\* the value of the first alias that is defined and not null, else undefined
RECURSIVE FirstDefined(_, _)
FirstDefined(item, aliases) ==
    IF aliases = <<>> THEN Undef
    ELSE IF Head(aliases) \in DOMAIN item
            /\ item[Head(aliases)].k \notin {"undefined", "null"}
         THEN item[Head(aliases)]
         ELSE FirstDefined(item, Tail(aliases))

\* the mounted view filters by business unit only
OnlyBusinessUnitFilter ==
    /\ \A k \in DOMAIN filters \ {BusinessUnitKey(activeView)} :
          IF k = "TypeOfService" THEN filters[k] = {} ELSE filters[k] = sAll
    /\ filters[BusinessUnitKey(activeView)] # sAll
    /\ \A b \in DOMAIN texts : texts[b] = sNone
    /\ sharedFilters.internalType = "All"

\* C21: the accessors return the first defined alias in the fixed order, and
\* a view that filters by business unit alone keeps exactly the rows whose
\* effective business unit is the selected one.
C21_OneEffectiveValue ==
    /\ \A sheet \in DataSheets : \A item \in Range(excelData[sheet]) :
          /\ getBusinessUnit(item) = FirstDefined(item, BusinessUnitAliases)
          /\ getDriverOperatorBU(item) = FirstDefined(item, BusinessUnitAliases)
          /\ getDesignation(item) = FirstDefined(item, DesignationAliases)
    /\ (activeView \in DetailViews /\ OnlyBusinessUnitFilter) =>
          \A item \in Range(excelData[activeView]) :
              item \in Range(ViewRows)
                  <=> ToStr(FirstDefined(item, BusinessUnitAliases))
                          = filters[BusinessUnitKey(activeView)]

(***************************************************************************)
(* A workbook that lacks an expected sheet                                 *)
(***************************************************************************)
\* the session in memory is the one upload u delivered
Adopted(u) ==
    /\ workers[u].state \in {"awaitSave", "terminated"}
    /\ workers[u].msg.type = "success"
    /\ fileLoaded /\ uploadTimestamp = Stamp(u)

WarningsFor(sheet) == {n \in 1..Len(warnings) : warnings[n] = SheetNotFound(sheet)}

\* the totals the mounted detail view shows are all zero
ZeroTotals ==
    CASE activeView = "Driver & Operator" ->
            DO_summaryData(ViewRows)
                = [totalRevenue |-> 0, totalExpense |-> 0, totalProfit |-> 0, recordCount |-> 0]
      [] activeView = "External Fleets" ->
            DV_summaryData(ViewRows)
                = [totalRevenue |-> 0, totalCost |-> 0, totalProfit |-> 0, recordCount |-> 0,
                   uniqueInvoiceCount |-> 0]
      [] activeView = "Job Card" ->
            JC_summaryData(ViewRows) = [totalAmount |-> 0, totalProfit |-> 0, recordCount |-> 0]
      [] activeView = "Fleet Management" ->
            FM_summaryData(excelData[activeView], filters)
                = [totalAmount |-> 0, percentage |-> ZeroPercentage]
      [] OTHER -> ViewRows = <<>>

\* C22: a readable file that lacks expected sheets is adopted with one warning
\* per missing sheet and an empty row collection for it, and the view of an
\* empty sheet, once its effects have run, shows no row, zero totals and
\* option lists that hold "All" only.
C22_MissingSheetIsEmpty ==
    /\ \A u \in 1..MaxUploads :
          /\ (workers[u].state = "posted" /\ workers[u].file.readable)
                => workers[u].msg.type = "success"
          /\ Adopted(u) =>
                \A sheet \in Range(sheetsToParse) :
                    IF sheet \in workers[u].file.sheets
                    THEN WarningsFor(sheet) = {}
                    ELSE /\ excelData[sheet] = <<>>
                         /\ Cardinality(WarningsFor(sheet)) = 1
    /\ (fileLoaded /\ activeView \in DetailViews /\ ~effectsPending
            /\ excelData[activeView] = <<>>) =>
          /\ ViewRows = <<>>
          /\ ZeroTotals
          /\ \A key \in DropdownKeysOf(activeView) :
                Options(activeView, excelData, filters, texts, key) = <<sAll>>

(***************************************************************************)
(* The rows the worker keeps of the Internal Fleets sheet                   *)
(***************************************************************************)
sPaddedB2 == <<" ", "B", "2", " ">>
sSpaces == <<" ", " ">>

\* rows of a vehicle inventory sheet as sheet_to_json yields them: a blank
\* cell has no key, a header keeps the whitespace it was typed with
RawInternalRows ==
    { [MONTH |-> Str(sJAN)] @@ ("Reg No:" :> Str(sA1)),
      (" MONTH" :> Str(sFEB)) @@ ("Reg No:" :> Str(sPaddedB2)),
      [MONTH |-> Str(sJAN)] @@ ("Reg No:" :> Num(7)),
      [MONTH |-> Str(sFEB)] @@ ("Reg No:" :> Num(0)),
      [MONTH |-> Str(sFEB)] @@ ("Reg No:" :> Str(sSpaces)),
      [MONTH |-> Str(sJAN)] @@ ("Reg No:" :> Str(sNone)),
      [MONTH |-> Str(sFEB)] @@ ("R-Revenue" :> Num(5)),
      [MONTH |-> Str(sJAN)] @@ ("Reg No: " :> Str(sA1)) }

IngestFiles ==
    { [name |-> "fleet.xlsx", readable |-> TRUE, sheets |-> DataSheets \cup {"Dashboard"},
       internal |-> rows] : rows \in RowSeqs(RawInternalRows, MaxRows) }

\* a first visit: nothing is stored
IngestInit == AppInit /\ idb = NULL

\* the first upload of a visit, until it is saved
IngestNext ==
    \/ loadData
    \/ IdbGetDone
    \/ \E file \in IngestFiles : NextUpload = 1 /\ handleFileUpload(file)
    \/ \E u \in 1..MaxUploads : WorkerPosts(u)
    \/ \E u \in 1..MaxUploads : OnMessageSuccess(u)
    \/ \E u \in 1..MaxUploads : IdbSetDone(u)

IngestSpec == IngestInit /\ [][IngestNext]_vars

\* the registration-number cell of a raw row: the cell under the header that
\* normalisation names "Reg No:"
RegistrationCell(row) ==
    IF \E key \in DOMAIN row : cleanedKey(key) = "Reg No:"
    THEN row[CHOOSE key \in DOMAIN row : cleanedKey(key) = "Reg No:"]
    ELSE Undef

HasRegistration(row) ==
    /\ RegistrationCell(row) # Undef
    /\ Trim(ToStr(RegistrationCell(row))) # sNone

\* out holds exactly the rows of raw at the positions in kept, in raw's order
IsOrderedSelection(out, raw, kept) ==
    \E g \in [1..Len(out) -> 1..Len(raw)] :
        /\ {g[j] : j \in 1..Len(out)} = kept
        /\ \A j, k \in 1..Len(out) : j < k => g[j] < g[k]
        /\ \A j \in 1..Len(out) : out[j] = cleanedRow(raw[g[j]])

\* C23: after an upload is adopted, the Internal Fleets collection holds
\* exactly the rows of the sheet whose registration-number cell is non-empty
\* after trimming, in the sheet's order, and every other sheet keeps all of
\* its rows.
C23_RegistrationFilter ==
    \A u \in 1..MaxUploads : Adopted(u) =>
        /\ IsOrderedSelection(excelData["Internal Fleets"], workers[u].file.internal,
               {i \in 1..Len(workers[u].file.internal) :
                    HasRegistration(workers[u].file.internal[i])})
        /\ \A sheet \in (DataSheets \ {"Internal Fleets"}) \cap workers[u].file.sheets :
               IsOrderedSelection(excelData[sheet], RawRows(workers[u].file, sheet),
                                  1..Len(RawRows(workers[u].file, sheet)))

\* the same, over sheets whose header is exactly "Reg No:" and whose
\* registration cells are not the number 0
PlainRegistration(row) ==
    /\ "Reg No: " \notin DOMAIN row
    /\ Get(row, "Reg No:") # Num(0)

C23_PlainHeaders ==
    \A u \in 1..MaxUploads :
        (Adopted(u) /\ \A row \in Range(workers[u].file.internal) : PlainRegistration(row))
            => C23_RegistrationFilter

(***************************************************************************)
(* The table of a view (ColumnHider.tsx, DataTable) and the vehicle card    *)
(* of the Internal Fleets view                                             *)
(***************************************************************************)
\* InternalFleetsView.tableData: a new object per filtered row, carrying the
\* columns of the table (those the workbooks explored fill)
IF_tableRow(item) ==
    ("Reg No:" :> Get(item, "Reg No:")) @@ ("Fleet No:" :> Get(item, "Fleet No:"))
      @@ ("Business Units" :> Get(item, "Business Units"))
      @@ ("Fleet_Category" :> Get(item, "Fleet_Category"))
      @@ ("Month" :> Get(item, "MONTH")) @@ ("Year" :> Get(item, "YEAR"))
      @@ ("F-Revenue" :> Get(item, "F-Revenue")) @@ ("R-Revenue" :> Get(item, "R-Revenue"))

IF_tableData(filteredData) == [i \in 1..Len(filteredData) |-> IF_tableRow(filteredData[i])]

\* sortedData: getType
getType(value) ==
    CASE IsNullish(value) -> "null"
      [] IsValidDate(value) -> "date"
      [] value.k = "number" -> "number"
      [] OTHER -> "string"

Sign(n) == IF n < 0 THEN -1 ELSE IF n > 0 THEN 1 ELSE 0

\* a.localeCompare(b)
localeCompare(a, b) == IF LocaleLess(a, b) THEN -1 ELSE IF LocaleLess(b, a) THEN 1 ELSE 0

\* the day a valid date falls on, in an order-preserving count
getTime(value) == (value.y * 12 + value.m) * 31 + value.d

\* the comparator sortedData hands to Array.prototype.sort (its sign)
compare(a, b, config) ==
    LET valA == Get(a, config.key)
        valB == Get(b, config.key)
        direction == IF config.direction = "asc" THEN 1 ELSE -1
    IN  IF getType(valA) = "null" THEN 1
        ELSE IF getType(valB) = "null" THEN -1
        ELSE IF getType(valA) = getType(valB) /\ getType(valA) = "date"
             THEN Sign(getTime(valA) - getTime(valB)) * direction
        ELSE IF getType(valA) = getType(valB) /\ getType(valA) = "number"
             THEN Sign(valA.n - valB.n) * direction
        ELSE localeCompare(ToStr(valA), ToStr(valB)) * direction

Reverse(a) == [i \in 1..Len(a) |-> a[Len(a) + 1 - i]]

\* Array.prototype.sort on a short array: the engine finds the run the array
\* starts with, reverses it when it descends, and inserts the remaining
\* elements by binary search
RECURSIVE RunLength(_, _, _, _)
RunLength(a, config, idx, descending) ==
    IF idx > Len(a) THEN idx - 1
    ELSE IF descending /\ compare(a[idx], a[idx - 1], config) >= 0 THEN idx - 1
    ELSE IF ~descending /\ compare(a[idx], a[idx - 1], config) < 0 THEN idx - 1
    ELSE RunLength(a, config, idx + 1, descending)

RECURSIVE BinarySearch(_, _, _, _, _)
BinarySearch(a, pivot, left, right, config) ==
    IF left >= right THEN left
    ELSE LET mid == left + ((right - left) \div 2)
         IN  IF compare(pivot, a[mid + 1], config) < 0
             THEN BinarySearch(a, pivot, left, mid, config)
             ELSE BinarySearch(a, pivot, mid + 1, right, config)

\* the element at position start + 1 moved to position pos + 1
InsertAt(a, start, pos) ==
    [i \in 1..Len(a) |->
        IF i - 1 < pos THEN a[i]
        ELSE IF i - 1 = pos THEN a[start + 1]
        ELSE IF i - 1 <= start THEN a[i - 1]
        ELSE a[i]]

RECURSIVE BinaryInsertionSort(_, _, _)
BinaryInsertionSort(a, start, config) ==
    IF start >= Len(a) THEN a
    ELSE BinaryInsertionSort(
            InsertAt(a, start, BinarySearch(a, a[start + 1], 0, start, config)),
            start + 1, config)

ArraySort(a, config) ==
    IF Len(a) < 2 THEN a
    ELSE LET descending == compare(a[2], a[1], config) < 0
             runLen == RunLength(a, config, 3, descending)
             run == IF descending
                    THEN Reverse(SubSeq(a, 1, runLen)) \o SubSeq(a, runLen + 1, Len(a))
                    ELSE a
         IN  BinaryInsertionSort(run, runLen, config)

\* DataTable.sortedData: a sorted copy, or the data itself while unsorted
sortedData(data, config) ==
    IF config.key = "" \/ config.direction = "null" THEN data
    ELSE ArraySort(data, config)

\* the rows the table of the Internal Fleets view shows
IF_shownRows ==
    sortedData(IF_tableData(FilteredData("Internal Fleets", excelData, filters, texts,
                                         sharedFilters)), sortConfig)

\* a header click that stops at descending
nextDirection_twoState(config, key) ==
    IF config.key = key /\ config.direction = "asc" THEN "desc" ELSE "asc"

\* requestSort: the direction a click on header `key` asks for
nextDirection(config, key) ==
    IF config.key = key /\ config.direction = "asc" THEN "desc"
    ELSE IF config.key = key /\ config.direction = "desc" THEN "null"
    ELSE "asc"

\* DataTable.requestSort; the headers are rendered while the table has rows
requestSort(key) ==
    /\ activeView = "Internal Fleets" /\ ~effectsPending /\ selectedVehicle = NULL
    /\ IF_shownRows # <<>>
    /\ sortConfig' = [key |-> key, direction |-> nextDirection(sortConfig, key)]
    /\ UNCHANGED <<excelData, activeView, sharedFilters, filters, texts, effectsPending,
                   sharedSeen, selectedVehicle>>
    /\ UNCHANGED appVars

\* the object a variable of the handler refers to: row j of the session's
\* Internal Fleets collection, or an object the handler created
SessionRow(j) == [session |-> j]

Fresh == [session |-> 0]

\* an assignment that keeps the reference
SpreadOf_alias(ref) == ref

\* { ...object }: a new object with the same fields
SpreadOf(ref) == Fresh

\* String(x || '')
StringOr(v) == ToStr(OrElse(v, Str(sNone)))

monthAbbrOf(v) == Substring0(ToUpperCase(StringOr(v)), 3)

\* data.find(...): the first vehicle with the reg number, year and month of
\* the table row (0 when there is none)
originalVehicleData(data, rowData) ==
    LET found == {j \in 1..Len(data) :
                    /\ Get(data[j], "Reg No:") = Get(rowData, "Reg No:")
                    /\ StringOr(Get(data[j], "YEAR"))
                         = ToStr(Coalesce(Get(rowData, "Year"), Str(sNone)))
                    /\ monthAbbrOf(Get(data[j], "MONTH")) = monthAbbrOf(Get(rowData, "Month"))}
    IN  IF found = {} THEN 0 ELSE CHOOSE j \in found : \A k \in found : j <= k

\* externalData.find(...): the external record of the vehicle (0: none)
externalRecord(externalData, vehicle) ==
    LET found == {j \in 1..Len(externalData) :
                    /\ Get(externalData[j], "Reg No:") = Get(vehicle, "Reg No:")
                    /\ monthAbbrOf(Get(externalData[j], "Month")) = monthAbbrOf(Get(vehicle, "MONTH"))
                    /\ StringOr(Get(externalData[j], "Year")) = StringOr(Get(vehicle, "YEAR"))}
    IN  IF found = {} THEN 0 ELSE CHOOSE j \in found : \A k \in found : j <= k

\* the vehicle with 'Back Charged' and 'Paid Amount' of its external record
withExternal(externalData, vehicle) ==
    IF Get(vehicle, "Fleet_Category") = Str(<<"E","x","t","e","r","n","a","l"," ","F","l","e","e","t","s">>)
       /\ externalRecord(externalData, vehicle) # 0
    THEN LET ext == externalData[externalRecord(externalData, vehicle)]
         IN  ("Back Charged" :> Coalesce(Get(ext, "REVENUE"), Get(ext, "Revenue")))
               @@ ("Paid Amount" :> Coalesce(Get(ext, "COST"), Get(ext, "Cost")))
               @@ vehicle
    ELSE vehicle

\* the job cards the handler sums for a vehicle
jobCardsOf(jobCardData, vehicle) ==
    LET regNo == ToLowerCase(StringOr(Get(vehicle, "Reg No:")))
        fleetNo == ToLowerCase(StringOr(Get(vehicle, "Fleet No:")))
    IN  FilterSeq(jobCardData, {jc \in Range(jobCardData) :
            LET jcRegOrFleet == ToLowerCase(StringOr(
                    OrElse(Get(jc, "Reg / Fleet No:"), Get(jc, "Plate #"))))
            IN  /\ monthAbbrOf(Get(jc, "Month")) = monthAbbrOf(Get(vehicle, "MONTH"))
                /\ StringOr(Get(jc, "Year")) = StringOr(Get(vehicle, "YEAR"))
                /\ jcRegOrFleet # sNone
                /\ \/ regNo # sNone /\ Includes(jcRegOrFleet, regNo)
                   \/ fleetNo # sNone /\ Includes(jcRegOrFleet, fleetNo)})

\* a sum over every job card of the vehicle's registration, whatever its month
jobCardTotal_anyMonth(jobCardData, vehicle) ==
    SumSeq([n \in 1..Len(jobCardData) |->
        IF Includes(ToLowerCase(StringOr(OrElse(Get(jobCardData[n], "Reg / Fleet No:"),
                                                Get(jobCardData[n], "Plate #")))),
                    ToLowerCase(StringOr(Get(vehicle, "Reg No:"))))
        THEN NumberOf(OrElse(OrElse(Get(jobCardData[n], "Total amount with Service Charge"),
                                    Get(jobCardData[n], "Total Amount w%")), Num(0)))
        ELSE 0])

\* .reduce((sum, jc) => sum + Number(... || ... || 0), 0)
jobCardTotal(jobCardData, vehicle) ==
    SumSeq([n \in 1..Len(jobCardsOf(jobCardData, vehicle)) |->
        NumberOf(OrElse(OrElse(
            Get(jobCardsOf(jobCardData, vehicle)[n], "Total amount with Service Charge"),
            Get(jobCardsOf(jobCardData, vehicle)[n], "Total Amount w%")), Num(0)))])

\* the vehicle the card shows
augmentedVehicleData(wb, rowData) ==
    LET data == wb["Internal Fleets"]
        vehicleToShow == IF originalVehicleData(data, rowData) # 0
                         THEN data[originalVehicleData(data, rowData)] ELSE rowData
        vehicle == withExternal(wb["External Fleets"], vehicleToShow)
    IN  IF /\ \/ StringOr(Get(vehicle, "Reg No:")) # sNone
              \/ StringOr(Get(vehicle, "Fleet No:")) # sNone
           /\ monthAbbrOf(Get(vehicle, "MONTH")) # sNone
           /\ StringOr(Get(vehicle, "YEAR")) # sNone
        THEN ("jobCardAmount" :> Num(jobCardTotal(wb["Job Card"], vehicle))) @@ vehicle
        ELSE vehicle

\* the object the handler's writes go to: the spread of the vehicle found
augmentedReference(wb, rowData) ==
    SpreadOf(IF originalVehicleData(wb["Internal Fleets"], rowData) # 0
             THEN SessionRow(originalVehicleData(wb["Internal Fleets"], rowData))
             ELSE Fresh)

\* InternalFleetsView.handleRowDoubleClick on the i-th row shown
handleRowDoubleClick(i) ==
    /\ activeView = "Internal Fleets" /\ ~effectsPending /\ selectedVehicle = NULL
    /\ i \in 1..Len(IF_shownRows)
    /\ selectedVehicle' = augmentedVehicleData(excelData, IF_shownRows[i])
    /\ excelData' =
          IF augmentedReference(excelData, IF_shownRows[i]) = Fresh THEN excelData
          ELSE [excelData EXCEPT !["Internal Fleets"][augmentedReference(excelData, IF_shownRows[i]).session]
                    = augmentedVehicleData(excelData, IF_shownRows[i])]
    /\ UNCHANGED <<activeView, sharedFilters, filters, texts, effectsPending, sharedSeen,
                   sortConfig>>
    /\ UNCHANGED appVars

\* VehicleCard.onClose
onClose ==
    /\ selectedVehicle # NULL
    /\ selectedVehicle' = NULL
    /\ UNCHANGED <<excelData, activeView, sharedFilters, filters, texts, effectsPending,
                   sharedSeen, sortConfig>>
    /\ UNCHANGED appVars

(***************************************************************************)
(* The Internal Fleets view with its table and card                        *)
(***************************************************************************)
sF7 == <<"F","7">>
sF9 == <<"F","9">>

\* vehicles: two rows of one vehicle and month (the second without revenue),
\* a vehicle without fleet number, a vehicle without month and year
VehicleRows ==
    { [MONTH |-> Str(sJAN), YEAR |-> Num(2024)] @@ ("Reg No:" :> Str(sA1))
        @@ ("Fleet No:" :> Str(sF7)) @@ ("R-Revenue" :> Num(5)),
      [MONTH |-> Str(sFEB), YEAR |-> Num(2024)] @@ ("Reg No:" :> Str(sB2))
        @@ ("R-Revenue" :> Num(3)),
      [MONTH |-> Str(sJAN), YEAR |-> Num(2024)] @@ ("Reg No:" :> Str(sA1))
        @@ ("Fleet No:" :> Str(sF9)),
      ("Reg No:" :> Str(sB2)) @@ ("R-Revenue" :> Num(7)) }

\* the headers clicked: a text column and an amount column with gaps
SortKeys == {"Month", "R-Revenue"}

ViewInit(wb) ==
    /\ excelData = wb
    /\ activeView = "Internal Fleets"
    /\ sharedFilters = AllShared
    /\ filters = InitialFilters("Internal Fleets", AllShared)
    /\ texts = InitialTexts("Internal Fleets")
    /\ effectsPending = TRUE
    /\ sharedSeen = Unmounted
    /\ fileName = LoadedFile
    /\ uploadTimestamp = Stamp(1)
    /\ isLoading = FALSE
    /\ error = "null"
    /\ warnings = <<>>
    /\ workers = NoWorkers
    /\ delivered = NoneDelivered
    /\ idb = Session(wb, LoadedFile, Stamp(1))
    /\ idbQueue = <<>>
    /\ loadState = "done"
    /\ priorSession = NULL
    /\ sortConfig = NoSort
    /\ selectedVehicle = NULL

TableInit ==
    \E rows \in RowSeqs(VehicleRows, MaxRows) : ViewInit(Workbook("Internal Fleets", rows))

TableNext ==
    \/ \E month \in ClickMonths : handleMonthFilterClick(month)
    \/ \E text \in SearchTexts : SetTextFilter("searchFilter", text)
    \/ RunEffects
    \/ \E key \in SortKeys : requestSort(key)
    \/ \E i \in 1..(MaxRows + 1) : handleRowDoubleClick(i)
    \/ onClose

TableSpec == TableInit /\ [][TableNext]_vars

\* C24: no filter change, recomputation, sort or row double-click changes
\* the rows held in the session, and the vehicle the card shows is a copy:
\* the amount attached to it is not attached to any row of the session.
C24_SessionRowsImmutable ==
    [][/\ excelData' = excelData
       /\ \A sheet \in DataSheets : \A item \in Range(excelData'[sheet]) :
             {"jobCardAmount", "Back Charged", "Paid Amount"} \cap DOMAIN item = {}]_vars

C24_Witness ==
    /\ selectedVehicle # NULL
    /\ "jobCardAmount" \in DOMAIN selectedVehicle
    /\ sortConfig.direction = "desc"
    /\ filters.Month # sAll

\* the job cards of the vehicle: same month abbreviation and year, and a
\* non-empty Reg / Fleet field (or plate) that contains, whatever the case,
\* the vehicle's non-empty registration or fleet number
Contributes(jc, vehicle) ==
    LET field == ToLowerCase(StringOr(OrElse(Get(jc, "Reg / Fleet No:"), Get(jc, "Plate #"))))
        numbers == {ToLowerCase(StringOr(Get(vehicle, c))) : c \in {"Reg No:", "Fleet No:"}}
                       \ {sNone}
    IN  /\ monthAbbrOf(Get(jc, "Month")) = monthAbbrOf(Get(vehicle, "MONTH"))
        /\ StringOr(Get(jc, "Year")) = StringOr(Get(vehicle, "YEAR"))
        /\ field # sNone
        /\ \E number \in numbers : Includes(field, number)

TotalAmountOf(jc) ==
    NumberOf(OrElse(OrElse(Get(jc, "Total amount with Service Charge"),
                           Get(jc, "Total Amount w%")), Num(0)))

HasKeyOfJoin(vehicle) ==
    /\ monthAbbrOf(Get(vehicle, "MONTH")) # sNone
    /\ StringOr(Get(vehicle, "YEAR")) # sNone
    /\ \E c \in {"Reg No:", "Fleet No:"} : StringOr(Get(vehicle, c)) # sNone

(***************************************************************************)
(* The vehicle card over vehicles and job cards                            *)
(***************************************************************************)
sLowerA1 == <<"a","1">>
sXB2 == <<"X","B","2">>

\* job cards: of the vehicle's month in another case, by plate and fleet
\* number, of another month, of another year, without Reg / Fleet field, and
\* one whose field contains a registration number inside a longer one
CardJobs ==
    { [Month |-> Str(sJAN), Year |-> Num(2024)] @@ ("Reg / Fleet No:" :> Str(sLowerA1))
        @@ ("Total amount with Service Charge" :> Num(1)),
      [Month |-> Str(sJAN), Year |-> Str(s2024)] @@ ("Plate #" :> Str(sF9))
        @@ ("Total Amount w%" :> Num(2)),
      [Month |-> Str(sFEB), Year |-> Num(2024)] @@ ("Reg / Fleet No:" :> Str(sA1))
        @@ ("Total amount with Service Charge" :> Num(4)),
      [Month |-> Str(sJAN), Year |-> Num(2025)] @@ ("Reg / Fleet No:" :> Str(sA1))
        @@ ("Total amount with Service Charge" :> Num(8)),
      [Month |-> Str(sJAN), Year |-> Num(2024)]
        @@ ("Total amount with Service Charge" :> Num(16)),
      [Month |-> Str(sFEB), Year |-> Num(2024)] @@ ("Reg / Fleet No:" :> Str(sXB2))
        @@ ("Total Amount w%" :> Num(32)) }

CardInit ==
    \E rows \in RowSeqs(VehicleRows, MaxRows), jobs \in RowSeqs(CardJobs, MaxRows) :
        ViewInit([Workbook("Internal Fleets", rows) EXCEPT !["Job Card"] = jobs])

CardNext ==
    \/ RunEffects
    \/ \E i \in 1..(MaxRows + 1) : handleRowDoubleClick(i)
    \/ onClose

CardSpec == CardInit /\ [][CardNext]_vars

\* C25: the vehicle a card shows carries as jobCardAmount the sum of the
\* total amounts of exactly the job cards of its month, year and numbers,
\* and carries no amount when it has no month, no year or neither number.
C25_JobCardAmount ==
    selectedVehicle # NULL =>
        IF HasKeyOfJoin(selectedVehicle)
        THEN Get(selectedVehicle, "jobCardAmount") =
                Num(SumSeq([n \in 1..Len(excelData["Job Card"]) |->
                        IF Contributes(excelData["Job Card"][n], selectedVehicle)
                        THEN TotalAmountOf(excelData["Job Card"][n]) ELSE 0]))
        ELSE "jobCardAmount" \notin DOMAIN selectedVehicle

\* a card whose amount comes from a job card matched by fleet number only,
\* beside a job card of another year that is left out
C25_Witness ==
    /\ selectedVehicle # NULL
    /\ Get(selectedVehicle, "jobCardAmount") = Num(2)
    /\ \E jc \in Range(excelData["Job Card"]) : Get(jc, "Year") = Num(2025)

C25_WitnessNoAmount ==
    /\ selectedVehicle # NULL
    /\ "jobCardAmount" \notin DOMAIN selectedVehicle
    /\ excelData["Job Card"] # <<>>

(***************************************************************************)
(* The hidden Rental / Fuel restriction of the Internal Fleets view         *)
(***************************************************************************)
\* C26: a card double-click sets internalType to the card's type for the
\* Internal Rental and Internal Fuel cards and to "All" for every other
\* card, and a sidebar click that opens the Internal Fleets view shows it
\* with internalType "All".
C26_InternalTypeOnlyFromCard ==
    [][/\ \A mapping \in cardMappings : handleDoubleClick(mapping) =>
             sharedFilters'.internalType =
                 (IF mapping.view = "Internal Fleets" THEN mapping.type ELSE "All")
       /\ NavItem("Internal Fleets") => sharedFilters'.internalType = "All"]_vars

\* the card part alone
C26_CardSetsType ==
    [][\A mapping \in cardMappings : handleDoubleClick(mapping) =>
             sharedFilters'.internalType =
                 (IF mapping.view = "Internal Fleets" THEN mapping.type ELSE "All")]_vars

(***************************************************************************)
(* The Dashboard cards against the views they open                          *)
(***************************************************************************)
\* the mounted view is in the state a card double-click opens it in
InInitialState ==
    /\ filters = InitialFilters(activeView, sharedFilters)
    /\ texts = InitialTexts(activeView)

\* C27: with the view in its initial state, the Driver & Operator card's row
\* count and revenue equal the view's record count and total revenue, and
\* the Job Card card's count and revenue equal the view's record count and
\* total amount.
C27_CardsAgreeWithViews ==
    /\ (activeView = "Driver & Operator" /\ InInitialState) =>
          /\ counts(excelData, sharedFilters).driverOperator
                = DO_summaryData(ViewRows).recordCount
          /\ revenueCards(excelData, sharedFilters).driverOperator
                = DO_summaryData(ViewRows).totalRevenue
    /\ (activeView = "Job Card" /\ InInitialState) =>
          /\ counts(excelData, sharedFilters).jobCards = JC_summaryData(ViewRows).recordCount
          /\ revenueCards(excelData, sharedFilters).jobCard
                = JC_summaryData(ViewRows).totalAmount

\* the Job Card part alone
C27_JobCardAgrees ==
    (activeView = "Job Card" /\ InInitialState) =>
          /\ counts(excelData, sharedFilters).jobCards = JC_summaryData(ViewRows).recordCount
          /\ revenueCards(excelData, sharedFilters).jobCard
                = JC_summaryData(ViewRows).totalAmount

\* the Driver & Operator counts alone
C27_DriverOperatorCountAgrees ==
    (activeView = "Driver & Operator" /\ InInitialState) =>
          counts(excelData, sharedFilters).driverOperator = DO_summaryData(ViewRows).recordCount

(***************************************************************************)
(* Reset while the save of an upload is in flight                           *)
(***************************************************************************)
\* idbClear rejects in loadData
LoadClearFails == IdbClearFails /\ Head(idbQueue).by = "load"

\* one page load: everything the application does between two reloads, from
\* any content of the object store, with every Reset's clear completing (a
\* rejected clear leaves the store as it is and the Reset undone)
PageNext ==
    \/ loadData
    \/ \E file \in Files : handleFileUpload(file)
    \/ \E u \in 1..MaxUploads : WorkerPosts(u)
    \/ \E u \in 1..MaxUploads : WorkerCrashes(u)
    \/ \E u \in 1..MaxUploads : OnMessageSuccess(u)
    \/ \E u \in 1..MaxUploads : OnMessageError(u)
    \/ \E u \in 1..MaxUploads : OnError(u)
    \/ IdbGetDone
    \/ IdbGetFails
    \/ \E u \in 1..MaxUploads : IdbSetDone(u)
    \/ \E u \in 1..MaxUploads : IdbSetFails(u)
    \/ handleClearSession
    \/ IdbClearDone
    \/ LoadClearFails
    \/ \E view \in SidebarViews : NavItem(view)
    \/ RunEffects

PageSpec == AppInit /\ [][PageNext]_vars

\* Reset was clicked while the save of upload u was in flight
ResetDuringSave(u) ==
    /\ workers[u].state = "awaitSave"
    /\ \E i, j \in 1..Len(idbQueue) :
          /\ i < j
          /\ idbQueue[i].op = "set" /\ idbQueue[i].upload = u
          /\ idbQueue[j].op = "clear" /\ idbQueue[j].by = "reset"

\* the save of upload u has ended, the session is empty and nothing else is
\* under way: no later upload, no pending request, no failure shown
EmptiedAfter(u) ==
    /\ workers[u].state = "terminated"
    /\ \A v \in 1..MaxUploads : v > u => workers[v].state = "none"
    /\ idbQueue = <<>> /\ loadState = "done"
    /\ excelData = NULL /\ fileName = NoFile /\ error = "null"

C28_WitnessAfter == EmptiedAfter(1) /\ workers[1].result = "saved"

(***************************************************************************)
(* The chain of stale-selection resets after a user action                  *)
(***************************************************************************)
\* React runs the effects of every committed render: weak fairness of a pass,
\* WF_vars(RunEffects), with ENABLED <<RunEffects>>_vars written out as the
\* guard of RunEffects (a pass always changes filters or effectsPending)
RunEffectsDue == effectsPending /\ activeView # "Dashboard"

FairSpec == Spec /\ ([]<>(~RunEffectsDue) \/ []<><<RunEffects>>_vars)

\* a pass of the stale-selection effects of a mounted detail view is due; the
\* shared filters have been pushed down already, as after every user action
ResetPassDue ==
    /\ activeView \in DetailViews
    /\ effectsPending
    /\ sharedSeen = sharedFilters

\* what one pass changes: dropdown dimensions that held a value, to "All"
OnlyResetsToAll ==
    ResetPassDue =>
        /\ texts' = texts
        /\ \A key \in DOMAIN filters :
              filters'[key] # filters[key] =>
                  /\ key \in DropdownKeys
                  /\ filters[key] # sAll
                  /\ filters'[key] = sAll

\* a settled view is a fixed point of its effects
SettledIsFixedPoint ==
    (activeView \in DetailViews /\ ~effectsPending) =>
        Effects(activeView, excelData, filters, texts) = filters

\* C29: after a user action in a view the chain of stale-selection resets
\* ends: every pass only moves dropdown dimensions that held a value to "All"
\* (so a dimension is reset at most once and nothing oscillates), the passes
\* stop, and the filter state they stop in is a fixed point of the effects.
C29_ResetChainTerminates ==
    /\ [][OnlyResetsToAll]_vars
    /\ []SettledIsFixedPoint
    /\ (ResetPassDue ~> ~effectsPending)

\* a user action has left a selection that the next pass resets
C29_Witness ==
    /\ ResetPassDue
    /\ \E key \in DropdownKeys :
          /\ filters[key] # sAll
          /\ Effects(activeView, excelData, filters, texts)[key] = sAll

(***************************************************************************)
(* The sort cycle of the table                                              *)
(***************************************************************************)
\* the rows the table receives, in the order the view filtered them
IF_unsortedRows ==
    IF_tableData(FilteredData("Internal Fleets", excelData, filters, texts, sharedFilters))

\* a header click: from the direction of a column to its next direction, and
\* to ascending on any other column
SortCycle ==
    sortConfig' # sortConfig =>
        IF sortConfig'.key = sortConfig.key
        THEN <<sortConfig.direction, sortConfig'.direction>>
                \in {<<"asc", "desc">>, <<"desc", "null">>, <<"null", "asc">>}
        ELSE sortConfig'.direction = "asc"

\* no row without a sort value stands before a row with one
NullsLast(rows, key) ==
    \A i, j \in 1..Len(rows) :
        (i < j /\ IsNullish(Get(rows[i], key))) => IsNullish(Get(rows[j], key))

\* what the table shows under the sort configuration
SortedDisplay ==
    activeView = "Internal Fleets" =>
        /\ sortConfig.direction = "null" => IF_shownRows = IF_unsortedRows
        /\ sortConfig.direction \in {"asc", "desc"} => NullsLast(IF_shownRows, sortConfig.key)

\* C30: a header click moves the column's direction ascending, descending,
\* unsorted, ascending, and a click on another header starts at ascending;
\* an unsorted table shows the rows in the order of the data, and a table
\* sorted either way shows the rows without a sort value after all others.
C30_SortCycle ==
    /\ [][SortCycle]_vars
    /\ []SortedDisplay

\* a table sorted descending that moved a row without a sort value from the
\* first place to the last
C30_Witness ==
    /\ activeView = "Internal Fleets"
    /\ sortConfig = [key |-> "R-Revenue", direction |-> "desc"]
    /\ Len(IF_shownRows) = 2
    /\ IsNullish(Get(IF_unsortedRows[1], "R-Revenue"))
    /\ ~IsNullish(Get(IF_shownRows[1], "R-Revenue"))
    /\ IsNullish(Get(IF_shownRows[2], "R-Revenue"))

\* the third click on a header has put the table back in the order of the data
C30_WitnessUnsorted ==
    /\ activeView = "Internal Fleets"
    /\ sortConfig = [key |-> "R-Revenue", direction |-> "null"]
    /\ Len(IF_shownRows) = 2

====
